---- MODULE Spec2Model ----
(***************************************************************************)
(* Model of goclit-ai's SmartRouter (internal/providers/smart_router.go):  *)
(* the provider registry, the availability index, the rare-model map, the  *)
(* quota pools, the usage history, and the operations AutoDiscover, Route, *)
(* RecordUsage and GetStats.                                               *)
(*                                                                         *)
(* Go pointers are modelled by a heap: every *Provider returned by a       *)
(* discovery function is a fresh address (a positive integer) and `heap`   *)
(* maps the address to the record.  r.providers maps a name to an address, *)
(* and every ModelAvailability holds the address it was built with.        *)
(*                                                                         *)
(* time.Time is a logical clock: the zero time is 0 and time.Now() is      *)
(* `now`, which advances with every RecordUsage.  time.Duration and the    *)
(* float64 costs are integers; QuotaReservePercent is a rational Num/Den   *)
(* whose values are dyadic, so the float64 product in isProviderAvailable  *)
(* is exact and int() is truncation of the exact quotient.                 *)
(*                                                                         *)
(* `mu` is the router's sync.RWMutex and `calls` holds, per goroutine, the *)
(* call it is executing and how far it got.  The actions AutoDiscover,     *)
(* Route, RecordUsage and GetStats are whole calls, lock to unlock, in one *)
(* step; SpecConcurrent runs the same calls statement by statement.        *)
(***************************************************************************)
EXTENDS Integers, Sequences, FiniteSets, TLC

VARIABLES providers, models, quotaPool, rareModels, usageHistory, config,
          heap, now, passes, ret, mu, calls,
          sisyphus, sisyphusCalls, hephaestus, hephaestusCalls, manager

\* The SmartRouter, its Provider records and the goroutines that call it.
routerVars == <<providers, models, quotaPool, rareModels, usageHistory, config,
                heap, now, passes, mu, calls>>

\* The agents (internal/agents) and the MCP manager (internal/mcp), with the
\* goroutines that run the agents' calls.
agentVars == <<sisyphus, sisyphusCalls, hephaestus, hephaestusCalls, manager>>

vars == <<providers, models, quotaPool, rareModels, usageHistory, config,
          heap, now, passes, ret, mu, calls,
          sisyphus, sisyphusCalls, hephaestus, hephaestusCalls, manager>>

(***************************************************************************)
(* Bounds of the model.                                                    *)
(***************************************************************************)
\* AutoDiscover runs at most MaxPasses times (Spec, SpecDeep).
MaxPasses == 1
\* RecordUsage runs while the clock is below MaxClock (Spec) or MaxDeepClock (SpecDeep).
MaxClock == 3
MaxDeepClock == 5
\* SpecRediscover: AutoDiscover runs again on the same router, up to MaxRediscover
\* passes in all, and RecordUsage runs while the clock is below MaxRediscoverClock.
MaxRediscover == 2
MaxRediscoverClock == 2
\* SpecUsage: RecordUsage runs while the clock is below MaxUsageClock.
MaxUsageClock == 3
\* SpecHistory: RecordUsage runs while the clock is below MaxHistoryClock, which
\* lets the history pass its cap of 1000 records.
MaxHistoryClock == 1003
\* SpecConcurrent: every goroutine makes at most MaxCallsEach calls.
MaxCallsEach == 2
\* SpecRank: RecordUsage runs while the clock is below MaxRankClock.
MaxRankClock == 4
\* SpecErrors: RecordUsage runs while the clock is below MaxErrorClock.
MaxErrorClock == 7
\* SpecCallers: each caller makes at most MaxRounds Route calls.
MaxRounds == 2
\* SpecBalance: RecordUsage runs while the clock is below MaxBalanceClock.
MaxBalanceClock == 6
\* SpecSisyphus: the retry budget (maxRetries) is at most MaxBudget, and each
\* goroutine makes at most MaxWorkCalls calls of Work or Resume.
MaxBudget == 2
MaxWorkCalls == 1
\* SpecHephaestus: the agent has at most MaxWorkers workers and the submitter
\* calls Submit at most MaxSubmits times.
MaxWorkers == 1
MaxSubmits == 2
\* SpecForge: tasks are submitted one at a time, at most MaxForgeTasks of them.
MaxForgeTasks == 101

Names == {"p1", "p2"}
ModelIDs == {"m1", "m2"}
DiscoveryOrder == <<"p1", "p2">>
TokenEstimates == {1, 4}

\* Values of the ProviderStatus type.
StatusActive == "active"
StatusError == "error"

\* Absent map keys and nil pointers.
NoProvider == ""
NoPool == [Model |-> ""]
Nil == 0
\* What a discovery function returns when it finds no account (nil, or an error).
NilProvider == [Name |-> ""]

\* The goroutines that call the router concurrently (SpecConcurrent).
Goroutines == {1, 2}
\* A sync.RWMutex nobody holds, and a goroutine that is not in a call (n: the
\* number of calls it has made).
Unlocked == [writer |-> FALSE, readers |-> 0]
Idle(n) == [op |-> "idle", pc |-> "idle", n |-> n, arg |-> Nil, local |-> Nil]

(***************************************************************************)
(* Inputs: what the discovery functions may return, the configurations the *)
(* router is constructed with, and the arguments of the calls.             *)
(***************************************************************************)
Model(id, cost) == [ID |-> id, InputCost |-> cost, OutputCost |-> 0, IsRare |-> FALSE]

Provider(name, ids, cost, rpd, tpd) ==
    [Name |-> name,
     Models |-> [i \in 1..Len(ids) |-> Model(ids[i], cost)],
     Quota |-> [RequestsPerDay |-> rpd, TokensPerDay |-> tpd,
                UsedRequests |-> 0, UsedTokens |-> 0],
     Status |-> StatusActive,
     LastUsed |-> 0,
     ErrorCount |-> 0,
     Latency |-> 0]

\* The provider records a discovery function can produce for an account.
Discoverable(name) ==
    IF name = "p1"
    THEN {Provider("p1", <<"m1", "m2">>, 2, 4, 5), Provider("p1", <<"m2">>, 2, 5, 0)}
    ELSE {Provider("p2", <<"m2">>, 1, 2, 3)}

DiscoveryOutcomes ==
    {o \in [Names -> {NilProvider} \cup UNION {Discoverable(n) : n \in Names}] :
        \A n \in Names : o[n] = NilProvider \/ o[n] \in Discoverable(n)}

ReservePercents == {[Num |-> 0, Den |-> 1], [Num |-> 3, Den |-> 4]}

RouterConfig == [PreferFast : BOOLEAN, PreferCheap : BOOLEAN,
                 QuotaReservePercent : ReservePercents]

\* QuotaReservePercent is a float64: the values a caller can pass to
\* NewSmartRouter include fractions below 0 and above 1 (SpecConfig).
OutOfRangePercents == {[Num |-> -1, Den |-> 2], [Num |-> 3, Den |-> 2]}
AnyRouterConfig == [PreferFast : BOOLEAN, PreferCheap : BOOLEAN,
                    QuotaReservePercent : ReservePercents \cup OutOfRangePercents]

RecordModels == {"m2"}
RecordTokens == {1}
RecordLatencies == {2}
\* SpecUsage records calls that differ in their token count and latency sample.
UsageTokens == {2, 3}
UsageLatencies == {2, 5}
\* SpecDeep and SpecRediscover record usage on one account only, so that long
\* runs stay small.
DeepProviders == {"p1"}

\* SpecRank: two accounts that offer the same model at different costs, with
\* request ceilings 4 and 2, so that their remaining-quota ratios can tie after
\* use; either may be absent.
RankOutcomes ==
    {o \in [Names -> {NilProvider, Provider("p1", <<"m2">>, 2, 4, 0),
                                   Provider("p2", <<"m2">>, 1, 2, 0)}] :
        \A n \in Names : o[n] = NilProvider \/ o[n].Name = n}

\* SpecZeroLimit: the first account declares no daily request limit
\* (RequestsPerDay 0), the second a limit of 2; either may be absent.
ZeroLimitOutcomes ==
    {o \in [Names -> {NilProvider, Provider("p1", <<"m2">>, 2, 0, 0),
                                   Provider("p2", <<"m2">>, 1, 2, 0)}] :
        \A n \in Names : o[n] = NilProvider \/ o[n].Name = n}

\* SpecBalance: two accounts that offer the same model with the same request
\* ceiling and no other model.
BalancedOutcome ==
    [n \in Names |-> IF n = "p1" THEN Provider("p1", <<"m2">>, 2, 4, 0)
                                ELSE Provider("p2", <<"m2">>, 1, 4, 0)]

\* The calls the goroutines of SpecConcurrent make.
ConcurrentOutcomes ==
    {o \in DiscoveryOutcomes : \A n \in Names : o[n] # NilProvider /\ Len(o[n].Models) = 1}
ConcurrentCalls ==
    {[op |-> "AutoDiscover", outcome |-> o] : o \in ConcurrentOutcomes}
    \cup {[op |-> "Route", modelID |-> "m2", tokenEstimate |-> 1]}
    \cup {[op |-> "RecordUsage", provider |-> "p1", model |-> "m2", tokens |-> t,
            latency |-> 2, success |-> FALSE] : t \in UsageTokens}
    \cup {[op |-> "GetStats"]}

(***************************************************************************)
(* NewSmartRouter                                                          *)
(***************************************************************************)
NewSmartRouter(cfg) ==
    /\ providers = [n \in {} |-> Nil]
    /\ models = [m \in ModelIDs |-> <<>>]
    /\ quotaPool = [m \in ModelIDs |-> NoPool]
    /\ rareModels = [m \in ModelIDs |-> NoProvider]
    /\ usageHistory = <<>>
    /\ config = cfg

\* The state after NewSmartRouter, called with one of the given configurations.
ConstructedRouter(configs) ==
    /\ \E cfg \in configs : NewSmartRouter(cfg)
    /\ heap = [a \in {} |-> Nil]
    /\ now = 1
    /\ passes = 0
    /\ ret = [op |-> "NewSmartRouter"]
    /\ mu = Unlocked
    /\ calls = [g \in Goroutines |-> Idle(0)]

\* AgentStatus.
StatusIdle == "idle"
StatusRunning == "running"
StatusPaused == "paused"
StatusComplete == "complete"
StatusFailed == "failed"

\* NewSisyphus with the option WithMaxRetries(maxRetries); 100 without it.
DefaultMaxRetries == 100
NewSisyphus(maxRetries) ==
    [status |-> StatusIdle, iterations |-> 0, maxRetries |-> maxRetries, task |-> ""]

\* No call of the Sisyphus agent is in flight on goroutine g, which made n calls.
SisyphusGoroutines == {1, 2}
NoWork(n) == [op |-> "idle", pc |-> "idle", n |-> n, ctxDone |-> FALSE, iter |-> 0,
              generated |-> 0, err |-> ""]

\* NewHephaestus: two channels of capacity 100 and the worker count (3, or
\* the one given by WithWorkers).
QueueCap == 100
ResultsCap == 100
DefaultWorkers == 3
NewHephaestus(workers) ==
    [status |-> StatusIdle, workQueue |-> [len |-> 0, closed |-> FALSE], results |-> 0,
     workers |-> workers]

\* The goroutines that call Start and Submit; nothing is called yet, no worker
\* is spawned, the program has not panicked.
Starters == {1, 2}
Submitters == {1}
NoForge ==
    [start |-> [s \in Starters |-> [pc |-> "idle", ctxDone |-> FALSE]],
     worker |-> [s \in Starters |-> <<>>],
     submit |-> [b \in Submitters |-> [pc |-> "idle", n |-> 0]],
     panic |-> ""]

\* NewManager: no server, no tool.
NewManager == [servers |-> <<>>, tools |-> <<>>]

\* The agents and the manager after their constructors, nothing called yet.
ConstructedAgents ==
    /\ sisyphus = NewSisyphus(DefaultMaxRetries)
    /\ sisyphusCalls = [g \in SisyphusGoroutines |-> NoWork(0)]
    /\ hephaestus = NewHephaestus(DefaultWorkers)
    /\ hephaestusCalls = NoForge
    /\ manager = NewManager

Constructed(configs) == ConstructedRouter(configs) /\ ConstructedAgents

Init == Constructed(RouterConfig)

(***************************************************************************)
(* AutoDiscover and its helpers                                            *)
(***************************************************************************)
\* indexModels: append one ModelAvailability per model of the provider at addr.
RECURSIVE indexModels(_, _, _, _)
indexModels(mods, addr, ms, i) ==
    IF i > Len(ms) THEN mods
    ELSE indexModels(
            [mods EXCEPT ![ms[i].ID] =
                Append(@, [Provider |-> addr, Model |-> ms[i], IsExclusive |-> FALSE])],
            addr, ms, i + 1)

\* The loop over the discoveries list: register each provider found, index its models.
RECURSIVE discoverLoop(_, _, _)
discoverLoop(st, outcome, i) ==
    IF i > Len(DiscoveryOrder) THEN st
    ELSE LET provider == outcome[DiscoveryOrder[i]] IN
         IF provider.Name = NilProvider.Name THEN discoverLoop(st, outcome, i + 1)
         ELSE LET addr == st.next IN
              discoverLoop(
                [providers |-> [n \in DOMAIN st.providers \cup {provider.Name} |->
                                   IF n = provider.Name THEN addr ELSE st.providers[n]],
                 heap |-> [a \in DOMAIN st.heap \cup {addr} |->
                                   IF a = addr THEN provider ELSE st.heap[a]],
                 models |-> indexModels(st.models, addr, provider.Models, 1),
                 next |-> addr + 1],
                outcome, i + 1)

\* identifyRareModels: a model with exactly one availability is rare.
identifyRareModelsIndex(mods) ==
    [m \in ModelIDs |->
        IF Len(mods[m]) = 1
        THEN <<[mods[m][1] EXCEPT !.IsExclusive = TRUE, !.Model.IsRare = TRUE]>>
        ELSE mods[m]]

identifyRareModelsMap(mods, rare, hp) ==
    [m \in ModelIDs |->
        IF Len(mods[m]) = 1 THEN hp[mods[m][1].Provider].Name ELSE rare[m]]

RECURSIVE SumRequests(_, _, _)
SumRequests(avails, hp, i) ==
    IF i > Len(avails) THEN 0
    ELSE hp[avails[i].Provider].Quota.RequestsPerDay + SumRequests(avails, hp, i + 1)

RECURSIVE SumTokens(_, _, _)
SumTokens(avails, hp, i) ==
    IF i > Len(avails) THEN 0
    ELSE hp[avails[i].Provider].Quota.TokensPerDay + SumTokens(avails, hp, i + 1)

\* buildQuotaPools: one pool per model with more than one availability.
buildQuotaPools(mods, pools, hp) ==
    [m \in ModelIDs |->
        IF Len(mods[m]) > 1
        THEN [Model |-> m,
              TotalRequests |-> SumRequests(mods[m], hp, 1),
              TotalTokens |-> SumTokens(mods[m], hp, 1),
              AvailableRequests |-> SumRequests(mods[m], hp, 1),
              AvailableTokens |-> SumTokens(mods[m], hp, 1),
              Providers |-> [i \in 1..Len(mods[m]) |-> hp[mods[m][i].Provider].Name]]
        ELSE pools[m]]

\* The body of AutoDiscover between Lock and Unlock.
discoverAll(outcome) ==
    LET st == discoverLoop([providers |-> providers, heap |-> heap, models |-> models,
                            next |-> Cardinality(DOMAIN heap) + 1], outcome, 1)
        indexed == identifyRareModelsIndex(st.models)
    IN /\ providers' = st.providers
       /\ heap' = st.heap
       /\ models' = indexed
       /\ rareModels' = identifyRareModelsMap(st.models, rareModels, st.heap)
       /\ quotaPool' = buildQuotaPools(indexed, quotaPool, st.heap)

AutoDiscover(outcome) ==
    /\ discoverAll(outcome)
    /\ passes' = passes + 1
    /\ ret' = [op |-> "AutoDiscover"]
    /\ UNCHANGED <<usageHistory, config, now, mu, calls,
                   agentVars>>

(***************************************************************************)
(* Ranking and admissibility                                               *)
(***************************************************************************)
\* providerHasRareModels: some rare model names this provider as its exclusive source.
providerHasRareModels(providerName) ==
    \E m \in ModelIDs : rareModels[m] # NoProvider /\ rareModels[m] = providerName

\* Mutant: the used fraction in place of the remaining one.
quotaUsedFraction(p) ==
    IF p.Quota.RequestsPerDay = 0
    THEN [Num |-> 1, Den |-> 1]
    ELSE [Num |-> p.Quota.UsedRequests, Den |-> p.Quota.RequestsPerDay]

\* quotaRemaining as the fraction Num/Den, Den > 0 (1/1 when the limit is 0).
quotaRemaining(p) ==
    IF p.Quota.RequestsPerDay = 0
    THEN [Num |-> 1, Den |-> 1]
    ELSE [Num |-> p.Quota.RequestsPerDay - p.Quota.UsedRequests,
          Den |-> p.Quota.RequestsPerDay]

RatioEq(a, b) == a.Num * b.Den = b.Num * a.Den
RatioGt(a, b) == a.Num * b.Den > b.Num * a.Den

\* int(x) for the quotient n/d, d > 0: truncation toward zero.
Trunc(n, d) == IF n >= 0 THEN n \div d ELSE -((-n) \div d)

reserveOf(p) ==
    Trunc(p.Quota.RequestsPerDay * config.QuotaReservePercent.Num,
          config.QuotaReservePercent.Den)

\* Mutant: the status is not looked at.
isProviderAvailableAnyStatus(p, tokenEstimate) ==
    IF p.Quota.UsedRequests >= p.Quota.RequestsPerDay THEN FALSE
    ELSE IF p.Quota.TokensPerDay > 0
            /\ p.Quota.UsedTokens + tokenEstimate > p.Quota.TokensPerDay THEN FALSE
    ELSE IF providerHasRareModels(p.Name)
            /\ p.Quota.UsedRequests >= p.Quota.RequestsPerDay - reserveOf(p) THEN FALSE
    ELSE TRUE

\* Mutant: no quota is reserved for rare models.
isProviderAvailableNoReserve(p, tokenEstimate) ==
    IF p.Status # StatusActive THEN FALSE
    ELSE IF p.Quota.UsedRequests >= p.Quota.RequestsPerDay THEN FALSE
    ELSE IF p.Quota.TokensPerDay > 0
            /\ p.Quota.UsedTokens + tokenEstimate > p.Quota.TokensPerDay THEN FALSE
    ELSE TRUE

\* Mutant: the request ceiling is the total of a quota pool the provider is in.
isProviderAvailablePooled(p, tokenEstimate) ==
    LET pooled == {m \in ModelIDs :
                     /\ quotaPool[m] # NoPool
                     /\ \E i \in 1..Len(quotaPool[m].Providers) :
                           quotaPool[m].Providers[i] = p.Name}
        ceiling == IF pooled = {} THEN p.Quota.RequestsPerDay
                   ELSE quotaPool[CHOOSE m \in pooled : TRUE].AvailableRequests
    IN  IF p.Status # StatusActive THEN FALSE
        ELSE IF p.Quota.UsedRequests >= ceiling THEN FALSE
        ELSE IF p.Quota.TokensPerDay > 0
                /\ p.Quota.UsedTokens + tokenEstimate > p.Quota.TokensPerDay THEN FALSE
        ELSE IF providerHasRareModels(p.Name)
                /\ p.Quota.UsedRequests >= p.Quota.RequestsPerDay - reserveOf(p) THEN FALSE
        ELSE TRUE

\* Mutant: a request ceiling of 0 means no ceiling.
isProviderAvailableZeroUnlimited(p, tokenEstimate) ==
    IF p.Status # StatusActive THEN FALSE
    ELSE IF p.Quota.RequestsPerDay > 0
            /\ p.Quota.UsedRequests >= p.Quota.RequestsPerDay THEN FALSE
    ELSE IF p.Quota.TokensPerDay > 0
            /\ p.Quota.UsedTokens + tokenEstimate > p.Quota.TokensPerDay THEN FALSE
    ELSE IF providerHasRareModels(p.Name)
            /\ p.Quota.UsedRequests >= p.Quota.RequestsPerDay - reserveOf(p) THEN FALSE
    ELSE TRUE

isProviderAvailable(p, tokenEstimate) ==
    IF p.Status # StatusActive THEN FALSE
    ELSE IF p.Quota.UsedRequests >= p.Quota.RequestsPerDay THEN FALSE
    ELSE IF p.Quota.TokensPerDay > 0
            /\ p.Quota.UsedTokens + tokenEstimate > p.Quota.TokensPerDay THEN FALSE
    ELSE IF providerHasRareModels(p.Name)
            /\ p.Quota.UsedRequests >= p.Quota.RequestsPerDay - reserveOf(p) THEN FALSE
    ELSE TRUE

\* Mutant: rules 1 and 2 (providers with rare models go last) are left out.
lessNoProtection(hp, pi, pj) ==
    LET iP == hp[pi.Provider]
        jP == hp[pj.Provider]
        iQuotaRatio == quotaRemaining(iP)
        jQuotaRatio == quotaRemaining(jP)
        iCost == pi.Model.InputCost + pi.Model.OutputCost
        jCost == pj.Model.InputCost + pj.Model.OutputCost
    IN  IF pi.IsExclusive THEN TRUE
        ELSE IF pj.IsExclusive THEN FALSE
        ELSE IF ~RatioEq(iQuotaRatio, jQuotaRatio) THEN RatioGt(iQuotaRatio, jQuotaRatio)
        ELSE IF config.PreferFast /\ iP.Latency # jP.Latency THEN iP.Latency < jP.Latency
        ELSE IF config.PreferCheap /\ iCost # jCost THEN iCost < jCost
        ELSE iP.LastUsed < jP.LastUsed

\* Mutant: rules 1 and 2 do not look at IsExclusive, so rule 3 cannot override them.
lessNoOverride(hp, pi, pj) ==
    LET iP == hp[pi.Provider]
        jP == hp[pj.Provider]
        iHasRare == providerHasRareModels(iP.Name)
        jHasRare == providerHasRareModels(jP.Name)
        iQuotaRatio == quotaRemaining(iP)
        jQuotaRatio == quotaRemaining(jP)
        iCost == pi.Model.InputCost + pi.Model.OutputCost
        jCost == pj.Model.InputCost + pj.Model.OutputCost
    IN  IF iHasRare /\ ~jHasRare THEN FALSE
        ELSE IF jHasRare /\ ~iHasRare THEN TRUE
        ELSE IF pi.IsExclusive THEN TRUE
        ELSE IF pj.IsExclusive THEN FALSE
        ELSE IF ~RatioEq(iQuotaRatio, jQuotaRatio) THEN RatioGt(iQuotaRatio, jQuotaRatio)
        ELSE IF config.PreferFast /\ iP.Latency # jP.Latency THEN iP.Latency < jP.Latency
        ELSE IF config.PreferCheap /\ iCost # jCost THEN iCost < jCost
        ELSE iP.LastUsed < jP.LastUsed

\* Mutant: rule 4 (lower latency first) does not look at PreferFast.
lessAlwaysFast(hp, pi, pj) ==
    LET iP == hp[pi.Provider]
        jP == hp[pj.Provider]
        iHasRare == providerHasRareModels(iP.Name)
        jHasRare == providerHasRareModels(jP.Name)
        iQuotaRatio == quotaRemaining(iP)
        jQuotaRatio == quotaRemaining(jP)
        iCost == pi.Model.InputCost + pi.Model.OutputCost
        jCost == pj.Model.InputCost + pj.Model.OutputCost
    IN  IF iHasRare /\ ~jHasRare /\ ~pi.IsExclusive THEN FALSE
        ELSE IF jHasRare /\ ~iHasRare /\ ~pj.IsExclusive THEN TRUE
        ELSE IF pi.IsExclusive THEN TRUE
        ELSE IF pj.IsExclusive THEN FALSE
        ELSE IF ~RatioEq(iQuotaRatio, jQuotaRatio) THEN RatioGt(iQuotaRatio, jQuotaRatio)
        ELSE IF iP.Latency # jP.Latency THEN iP.Latency < jP.Latency
        ELSE IF config.PreferCheap /\ iCost # jCost THEN iCost < jCost
        ELSE iP.LastUsed < jP.LastUsed

\* Mutant: rule 5 (lower cost) is tried before rule 4 (lower latency).
lessCostFirst(hp, pi, pj) ==
    LET iP == hp[pi.Provider]
        jP == hp[pj.Provider]
        iHasRare == providerHasRareModels(iP.Name)
        jHasRare == providerHasRareModels(jP.Name)
        iQuotaRatio == quotaRemaining(iP)
        jQuotaRatio == quotaRemaining(jP)
        iCost == pi.Model.InputCost + pi.Model.OutputCost
        jCost == pj.Model.InputCost + pj.Model.OutputCost
    IN  IF iHasRare /\ ~jHasRare /\ ~pi.IsExclusive THEN FALSE
        ELSE IF jHasRare /\ ~iHasRare /\ ~pj.IsExclusive THEN TRUE
        ELSE IF pi.IsExclusive THEN TRUE
        ELSE IF pj.IsExclusive THEN FALSE
        ELSE IF ~RatioEq(iQuotaRatio, jQuotaRatio) THEN RatioGt(iQuotaRatio, jQuotaRatio)
        ELSE IF config.PreferCheap /\ iCost # jCost THEN iCost < jCost
        ELSE IF config.PreferFast /\ iP.Latency # jP.Latency THEN iP.Latency < jP.Latency
        ELSE iP.LastUsed < jP.LastUsed

\* Mutant: the last rule puts the most recently used provider first.
lessMostRecentFirst(hp, pi, pj) ==
    LET iP == hp[pi.Provider]
        jP == hp[pj.Provider]
        iHasRare == providerHasRareModels(iP.Name)
        jHasRare == providerHasRareModels(jP.Name)
        iQuotaRatio == quotaRemaining(iP)
        jQuotaRatio == quotaRemaining(jP)
        iCost == pi.Model.InputCost + pi.Model.OutputCost
        jCost == pj.Model.InputCost + pj.Model.OutputCost
    IN  IF iHasRare /\ ~jHasRare /\ ~pi.IsExclusive THEN FALSE
        ELSE IF jHasRare /\ ~iHasRare /\ ~pj.IsExclusive THEN TRUE
        ELSE IF pi.IsExclusive THEN TRUE
        ELSE IF pj.IsExclusive THEN FALSE
        ELSE IF ~RatioEq(iQuotaRatio, jQuotaRatio) THEN RatioGt(iQuotaRatio, jQuotaRatio)
        ELSE IF config.PreferFast /\ iP.Latency # jP.Latency THEN iP.Latency < jP.Latency
        ELSE IF config.PreferCheap /\ iCost # jCost THEN iCost < jCost
        ELSE iP.LastUsed > jP.LastUsed

\* The comparator handed to sort.Slice: TRUE when pi sorts before pj.  The
\* entries point into hp, the Provider records.
lessOn(hp, pi, pj) ==
    LET iP == hp[pi.Provider]
        jP == hp[pj.Provider]
        iHasRare == providerHasRareModels(iP.Name)
        jHasRare == providerHasRareModels(jP.Name)
        iQuotaRatio == quotaRemaining(iP)
        jQuotaRatio == quotaRemaining(jP)
        iCost == pi.Model.InputCost + pi.Model.OutputCost
        jCost == pj.Model.InputCost + pj.Model.OutputCost
    IN  IF iHasRare /\ ~jHasRare /\ ~pi.IsExclusive THEN FALSE
        ELSE IF jHasRare /\ ~iHasRare /\ ~pj.IsExclusive THEN TRUE
        ELSE IF pi.IsExclusive THEN TRUE
        ELSE IF pj.IsExclusive THEN FALSE
        ELSE IF ~RatioEq(iQuotaRatio, jQuotaRatio) THEN RatioGt(iQuotaRatio, jQuotaRatio)
        ELSE IF config.PreferFast /\ iP.Latency # jP.Latency THEN iP.Latency < jP.Latency
        ELSE IF config.PreferCheap /\ iCost # jCost THEN iCost < jCost
        ELSE iP.LastUsed < jP.LastUsed

\* The comparator on the router's own Provider records.
less(pi, pj) == lessOn(heap, pi, pj)

Swap(s, i, j) == [s EXCEPT ![i] = s[j], ![j] = s[i]]

\* sort.Slice on a slice of at most 12 elements is an insertion sort:
\* for i := 1..n-1 { for j := i; j > 0 && less(j, j-1); j-- { swap(j, j-1) } }.
RECURSIVE insertOneOn(_, _, _)
insertOneOn(hp, s, j) ==
    IF j > 1 /\ lessOn(hp, s[j], s[j - 1])
    THEN insertOneOn(hp, Swap(s, j, j - 1), j - 1)
    ELSE s

RECURSIVE insertionSortOn(_, _, _)
insertionSortOn(hp, s, i) ==
    IF i > Len(s) THEN s ELSE insertionSortOn(hp, insertOneOn(hp, s, i), i + 1)

\* sort.Slice on entries that point at the router's own Provider records.
insertionSort(s, i) == insertionSortOn(heap, s, i)

\* Mutant: sort.Slice runs on the caller's slice, no copy is made.
rankProvidersInPlace(availabilities, tokenEstimate) ==
    [ranked |-> insertionSort(availabilities, 2),
     original |-> insertionSort(availabilities, 2)]

\* Mutant: the copy target is made with length 0, so copy() copies nothing.
rankProvidersEmptyCopy(availabilities, tokenEstimate) ==
    [ranked |-> <<>>, original |-> availabilities]

\* rankProviders sorts a copy: `ranked` is what it returns, `original` is what the
\* caller's slice (the index entry) holds afterwards.
rankProviders(availabilities, tokenEstimate) ==
    [ranked |-> insertionSort(availabilities, 2), original |-> availabilities]

\* Mutant: the ranked list is scanned from its end.
RECURSIVE lastAvailable(_, _, _)
lastAvailable(ranked, tokenEstimate, i) ==
    IF i > Len(ranked) THEN Nil
    ELSE LET j == Len(ranked) + 1 - i IN
         IF isProviderAvailable(heap[ranked[j].Provider], tokenEstimate)
         THEN ranked[j].Provider
         ELSE lastAvailable(ranked, tokenEstimate, i + 1)

\* The loop of Route over the ranked list: the first available provider, or
\* Nil.  The entries point into hp, the Provider records.
RECURSIVE firstAvailableOn(_, _, _, _)
firstAvailableOn(hp, ranked, tokenEstimate, i) ==
    IF i > Len(ranked) THEN Nil
    ELSE IF isProviderAvailable(hp[ranked[i].Provider], tokenEstimate)
         THEN ranked[i].Provider
         ELSE firstAvailableOn(hp, ranked, tokenEstimate, i + 1)

firstAvailable(ranked, tokenEstimate, i) == firstAvailableOn(heap, ranked, tokenEstimate, i)

ErrNotFound == "model not found"
ErrNoProvider == "no available provider for model"

\* Mutant: the index lookup is not checked, an absent model is ranked as an empty list.
routeResultNoLookup(modelID, tokenEstimate) ==
    LET r == rankProviders(models[modelID], tokenEstimate)
        p == firstAvailable(r.ranked, tokenEstimate, 1)
    IN  [provider |-> p, err |-> IF p = Nil THEN ErrNoProvider ELSE "",
         index |-> r.original]

\* What Route returns, and what it leaves in the index entry it ranked.
routeResult(modelID, tokenEstimate) ==
    IF Len(models[modelID]) = 0
    THEN [provider |-> Nil, err |-> ErrNotFound, index |-> models[modelID]]
    ELSE LET r == rankProviders(models[modelID], tokenEstimate)
             p == firstAvailable(r.ranked, tokenEstimate, 1)
         IN  [provider |-> p, err |-> IF p = Nil THEN ErrNoProvider ELSE "",
              index |-> r.original]

Route(modelID, tokenEstimate) ==
    LET r == routeResult(modelID, tokenEstimate)
    IN  /\ ret' = [op |-> "Route", modelID |-> modelID, tokenEstimate |-> tokenEstimate,
                   provider |-> r.provider, err |-> r.err]
        /\ models' = [models EXCEPT ![modelID] = r.index]
        /\ UNCHANGED <<providers, quotaPool, rareModels, usageHistory, config, heap,
                       now, passes, mu, calls,
                   agentVars>>

(***************************************************************************)
(* RecordUsage                                                             *)
(***************************************************************************)
\* Mutant: a failed call is not counted against the quota.
recordOnSuccessOnly(p, tokens, latency, success) ==
    LET used == [p EXCEPT !.LastUsed = now,
                          !.Quota.UsedRequests = @ + 1,
                          !.Quota.UsedTokens = @ + tokens,
                          !.Latency = IF @ = 0 THEN latency ELSE (@ + latency) \div 2]
    IN  IF success THEN used
        ELSE [p EXCEPT !.LastUsed = now,
                       !.ErrorCount = @ + 1,
                       !.Status = IF p.ErrorCount + 1 > 3 THEN StatusError ELSE @]

\* Mutant: a successful call puts the provider back to active.
recordOnRecovers(p, tokens, latency, success) ==
    LET used == [p EXCEPT !.LastUsed = now,
                          !.Quota.UsedRequests = @ + 1,
                          !.Quota.UsedTokens = @ + tokens,
                          !.Latency = IF @ = 0 THEN latency ELSE (@ + latency) \div 2]
    IN  IF success THEN [used EXCEPT !.Status = StatusActive]
        ELSE [used EXCEPT !.ErrorCount = @ + 1,
                          !.Status = IF used.ErrorCount + 1 > 3 THEN StatusError ELSE @]

\* Mutant: only consecutive failures count, a successful call resets the count.
recordOnConsecutive(p, tokens, latency, success) ==
    LET used == [p EXCEPT !.LastUsed = now,
                          !.Quota.UsedRequests = @ + 1,
                          !.Quota.UsedTokens = @ + tokens,
                          !.Latency = IF @ = 0 THEN latency ELSE (@ + latency) \div 2]
    IN  IF success THEN [used EXCEPT !.ErrorCount = 0]
        ELSE [used EXCEPT !.ErrorCount = @ + 1,
                          !.Status = IF used.ErrorCount + 1 > 3 THEN StatusError ELSE @]

\* Mutant: the error threshold is off by one (ErrorCount >= 3).
recordOnThreeErrors(p, tokens, latency, success) ==
    LET used == [p EXCEPT !.LastUsed = now,
                          !.Quota.UsedRequests = @ + 1,
                          !.Quota.UsedTokens = @ + tokens,
                          !.Latency = IF @ = 0 THEN latency ELSE (@ + latency) \div 2]
    IN  IF success THEN used
        ELSE [used EXCEPT !.ErrorCount = @ + 1,
                          !.Status = IF used.ErrorCount + 1 >= 3 THEN StatusError ELSE @]

recordOn(p, tokens, latency, success) ==
    LET used == [p EXCEPT !.LastUsed = now,
                          !.Quota.UsedRequests = @ + 1,
                          !.Quota.UsedTokens = @ + tokens,
                          !.Latency = IF @ = 0 THEN latency ELSE (@ + latency) \div 2]
    IN  IF success THEN used
        ELSE [used EXCEPT !.ErrorCount = @ + 1,
                          !.Status = IF used.ErrorCount + 1 > 3 THEN StatusError ELSE @]

HistoryCap == 1000
HistoryDrop == 100

\* Mutant: only the oldest record is dropped when the cap is passed.
appendHistoryDropOne(h, rec) ==
    LET grown == Append(h, rec)
    IN  IF Len(grown) > HistoryCap THEN SubSeq(grown, 2, Len(grown)) ELSE grown

appendHistory(h, rec) ==
    LET grown == Append(h, rec)
    IN  IF Len(grown) > HistoryCap THEN SubSeq(grown, HistoryDrop + 1, Len(grown)) ELSE grown

\* Mutant: a call for a provider that is not registered returns before the
\* history append.
RecordUsageRegisteredOnly(provider, model, tokens, latency, success) ==
    /\ IF provider \in DOMAIN providers
       THEN /\ heap' = [heap EXCEPT ![providers[provider]] =
                            recordOn(@, tokens, latency, success)]
            /\ usageHistory' = appendHistory(usageHistory,
                                  [Time |-> now, Provider |-> provider, Model |-> model,
                                   Tokens |-> tokens, Latency |-> latency,
                                   Success |-> success])
       ELSE UNCHANGED <<heap, usageHistory>>
    /\ now' = now + 1
    /\ ret' = [op |-> "RecordUsage", provider |-> provider, success |-> success]
    /\ UNCHANGED <<providers, models, quotaPool, rareModels, config, passes, mu, calls,
                   agentVars>>

RecordUsage(provider, model, tokens, latency, success) ==
    /\ IF provider \in DOMAIN providers
       THEN heap' = [heap EXCEPT ![providers[provider]] = recordOn(@, tokens, latency, success)]
       ELSE UNCHANGED heap
    /\ usageHistory' = appendHistory(usageHistory,
                          [Time |-> now, Provider |-> provider, Model |-> model,
                           Tokens |-> tokens, Latency |-> latency, Success |-> success])
    /\ now' = now + 1
    /\ ret' = [op |-> "RecordUsage", provider |-> provider, success |-> success]
    /\ UNCHANGED <<providers, models, quotaPool, rareModels, config, passes, mu, calls,
                   agentVars>>

(***************************************************************************)
(* GetStats                                                                *)
(***************************************************************************)
\* Mutant: the quota that is left is reported as the quota used.
RouterStatsQuotaLeft ==
    [TotalProviders |-> Cardinality(DOMAIN providers),
     TotalModels |-> Cardinality({m \in ModelIDs : Len(models[m]) > 0}),
     RareModels |-> Cardinality({m \in ModelIDs : rareModels[m] # NoProvider}),
     ProviderStats |->
        [n \in DOMAIN providers |->
            LET p == heap[providers[n]] IN
            [Status |-> p.Status,
             QuotaUsed |-> p.Quota.RequestsPerDay - p.Quota.UsedRequests,
             QuotaTotal |-> p.Quota.RequestsPerDay,
             AvgLatency |-> p.Latency,
             ErrorCount |-> p.ErrorCount,
             ModelCount |-> Len(p.Models),
             HasRareModels |-> providerHasRareModels(n)]]]

RouterStats ==
    [TotalProviders |-> Cardinality(DOMAIN providers),
     TotalModels |-> Cardinality({m \in ModelIDs : Len(models[m]) > 0}),
     RareModels |-> Cardinality({m \in ModelIDs : rareModels[m] # NoProvider}),
     ProviderStats |->
        [n \in DOMAIN providers |->
            LET p == heap[providers[n]] IN
            [Status |-> p.Status,
             QuotaUsed |-> p.Quota.UsedRequests,
             QuotaTotal |-> p.Quota.RequestsPerDay,
             AvgLatency |-> p.Latency,
             ErrorCount |-> p.ErrorCount,
             ModelCount |-> Len(p.Models),
             HasRareModels |-> providerHasRareModels(n)]]]

GetStats ==
    /\ ret' = [op |-> "GetStats", stats |-> RouterStats]
    /\ UNCHANGED <<providers, models, quotaPool, rareModels, usageHistory, config,
                   heap, now, passes, mu, calls,
                   agentVars>>

(***************************************************************************)
(* The model catalog (internal/providers/model_registry.go)                *)
(***************************************************************************)
\* ModelRegistry: the provider list (ModelInfo.Providers) of every known model.
ModelRegistry ==
    "claude-opus-4" :> <<"anthropic", "openrouter", "aws-bedrock">> @@
    "claude-sonnet-4" :> <<"anthropic", "openrouter", "aws-bedrock", "google-vertex">> @@
    "claude-haiku-3.5" :> <<"anthropic", "openrouter", "aws-bedrock">> @@
    "gpt-4o" :> <<"openai", "openrouter", "azure">> @@
    "gpt-4o-mini" :> <<"openai", "openrouter", "azure">> @@
    "gpt-4-turbo" :> <<"openai", "openrouter", "azure">> @@
    "o1" :> <<"openai">> @@
    "o1-mini" :> <<"openai">> @@
    "o3-mini" :> <<"openai">> @@
    "gemini-2.5-pro" :> <<"google", "openrouter">> @@
    "gemini-2.5-flash" :> <<"google", "openrouter">> @@
    "gemini-2.0-flash-thinking" :> <<"google">> @@
    "llama-3.3-70b" :> <<"groq", "together", "fireworks", "cerebras", "sambanova", "openrouter">> @@
    "llama-3.1-405b" :> <<"together", "fireworks", "openrouter">> @@
    "llama-3.1-70b" :> <<"groq", "together", "fireworks", "cerebras", "openrouter">> @@
    "llama-3.1-8b" :> <<"groq", "together", "fireworks", "cerebras", "sambanova", "openrouter", "local">> @@
    "mistral-large" :> <<"mistral", "openrouter">> @@
    "mistral-medium" :> <<"mistral", "openrouter">> @@
    "mixtral-8x22b" :> <<"mistral", "together", "groq", "openrouter">> @@
    "codestral" :> <<"mistral">> @@
    "deepseek-chat" :> <<"deepseek", "openrouter">> @@
    "deepseek-coder" :> <<"deepseek", "openrouter">> @@
    "deepseek-r1" :> <<"deepseek", "together", "openrouter">> @@
    "qwen-2.5-72b" :> <<"together", "fireworks", "openrouter">> @@
    "qwen-coder-32b" :> <<"together", "openrouter">> @@
    "whisper-large-v3" :> <<"groq", "openai">> @@
    "whisper-large-v3-turbo" :> <<"groq">> @@
    "tts-1" :> <<"openai">> @@
    "tts-1-hd" :> <<"openai">> @@
    "elevenlabs" :> <<"elevenlabs">> @@
    "text-embedding-3-large" :> <<"openai">> @@
    "text-embedding-3-small" :> <<"openai">> @@
    "voyage-3" :> <<"voyage">> @@
    "dall-e-3" :> <<"openai">> @@
    "imagen-3" :> <<"google">> @@
    "flux-1-pro" :> <<"together", "replicate">>

\* The preference order GetBestProvider has for each strategy it knows.
PreferOrder ==
    "free" :> <<"groq", "google", "openrouter", "cerebras", "sambanova">> @@
    "fast" :> <<"groq", "cerebras", "fireworks", "together">> @@
    "cheap" :> <<"deepseek", "together", "openrouter", "groq">>

\* The arguments GetBestProvider is called with: every model of the catalog
\* and one that is not in it; the three strategies and two others.
QueryModels == DOMAIN ModelRegistry \cup {"no-such-model"}
Strategies == {"free", "fast", "cheap", "quality", ""}

\* `for _, p := range info.Providers { if p == pref { return p } }`: the index
\* of the first element of list from i on that equals pref, 0 when none does.
RECURSIVE indexOf(_, _, _)
indexOf(list, pref, i) ==
    IF i > Len(list) THEN 0
    ELSE IF list[i] = pref THEN i
    ELSE indexOf(list, pref, i + 1)

\* Mutant: the loops are nested the other way round, the first listed provider
\* that is in the preference order wins.
RECURSIVE firstPreferredListed(_, _, _)
firstPreferredListed(preferOrder, list, k) ==
    IF k > Len(list) THEN ""
    ELSE IF indexOf(preferOrder, list[k], 1) # 0 THEN list[k]
    ELSE firstPreferredListed(preferOrder, list, k + 1)

\* `for _, pref := range preferOrder { ... }`: the first preference from k on
\* that the list holds, "" when the loop falls through.
RECURSIVE firstPreferred(_, _, _)
firstPreferred(preferOrder, list, k) ==
    IF k > Len(preferOrder) THEN ""
    ELSE IF indexOf(list, preferOrder[k], 1) # 0
         THEN list[indexOf(list, preferOrder[k], 1)]
    ELSE firstPreferred(preferOrder, list, k + 1)

GetBestProvider(modelID, strategy) ==
    IF modelID \notin DOMAIN ModelRegistry THEN ""
    ELSE LET info == ModelRegistry[modelID]
             pick == IF strategy \in DOMAIN PreferOrder
                     THEN firstPreferred(PreferOrder[strategy], info, 1)
                     ELSE ""
         IN  IF Len(info) = 1 THEN info[1]
             ELSE IF pick # "" THEN pick
             ELSE info[1]

\* A call of GetBestProvider; the catalog is a package variable nothing writes.
BestProvider(modelID, strategy) ==
    /\ ret' = [op |-> "GetBestProvider", modelID |-> modelID, strategy |-> strategy,
               provider |-> GetBestProvider(modelID, strategy)]
    /\ UNCHANGED <<providers, models, quotaPool, rareModels, usageHistory, config,
                   heap, now, passes, mu, calls,
                   agentVars>>

(***************************************************************************)
(* The same calls statement by statement, on concurrent goroutines         *)
(***************************************************************************)
\* sync.RWMutex: Lock succeeds when nobody holds the lock, RLock when no writer
\* does.  (That RLock also waits behind a pending Lock matters to progress only.)
\* Mutant: Lock succeeds whoever holds the lock.
canLockAlways(m) == TRUE

canLock(m) == ~m.writer /\ m.readers = 0
canRLock(m) == ~m.writer

\* A goroutine enters a call: the next thing it does is take the lock.
Go(g, c) ==
    /\ calls[g].pc = "idle"
    /\ calls[g].n < MaxCallsEach
    /\ calls' = [calls EXCEPT ![g] =
                    [op |-> c.op,
                     pc |-> IF c.op \in {"Route", "GetStats"} THEN "RLock" ELSE "Lock",
                     n |-> calls[g].n + 1, arg |-> c, local |-> Nil]]
    /\ UNCHANGED <<providers, models, quotaPool, rareModels, usageHistory, config,
                   heap, now, passes, ret, mu,
                   agentVars>>

\* r.mu.Lock() of AutoDiscover and RecordUsage.
Lock(g) ==
    /\ calls[g].pc = "Lock"
    /\ canLock(mu)
    /\ mu' = [mu EXCEPT !.writer = TRUE]
    /\ calls' = [calls EXCEPT ![g].pc =
                    IF calls[g].op = "AutoDiscover" THEN "discover" ELSE "load"]
    /\ UNCHANGED <<providers, models, quotaPool, rareModels, usageHistory, config,
                   heap, now, passes, ret,
                   agentVars>>

\* r.mu.RLock() of Route and GetStats.
RLock(g) ==
    /\ calls[g].pc = "RLock"
    /\ canRLock(mu)
    /\ mu' = [mu EXCEPT !.readers = @ + 1]
    /\ calls' = [calls EXCEPT ![g].pc = IF calls[g].op = "Route" THEN "route" ELSE "stats"]
    /\ UNCHANGED <<providers, models, quotaPool, rareModels, usageHistory, config,
                   heap, now, passes, ret,
                   agentVars>>

\* AutoDiscover between Lock and the deferred Unlock.
DiscoverBody(g) ==
    /\ calls[g].pc = "discover"
    /\ discoverAll(calls[g].arg.outcome)
    /\ passes' = passes + 1
    /\ calls' = [calls EXCEPT ![g].pc = "Unlock"]
    /\ UNCHANGED <<usageHistory, config, now, ret, mu,
                   agentVars>>

\* RecordUsage: the registry lookup and the loads of `p.Quota.UsedRequests++`,
\* `p.Quota.UsedTokens += tokens` and of the latency and error updates.
RecordLoad(g) ==
    /\ calls[g].pc = "load"
    /\ calls' = [calls EXCEPT ![g] =
                    IF calls[g].arg.provider \in DOMAIN providers
                    THEN [@ EXCEPT !.pc = "quota",
                                   !.local = [addr |-> providers[calls[g].arg.provider],
                                              p |-> heap[providers[calls[g].arg.provider]]]]
                    ELSE [@ EXCEPT !.pc = "history"]]
    /\ UNCHANGED <<providers, models, quotaPool, rareModels, usageHistory, config,
                   heap, now, passes, ret, mu,
                   agentVars>>

\* What the call writes to the provider, from the values it loaded.
recorded(g) ==
    recordOn(calls[g].local.p, calls[g].arg.tokens, calls[g].arg.latency,
             calls[g].arg.success)

\* RecordUsage: the stores to LastUsed, UsedRequests and UsedTokens.
RecordQuota(g) ==
    /\ calls[g].pc = "quota"
    /\ heap' = [heap EXCEPT ![calls[g].local.addr] =
                   [@ EXCEPT !.LastUsed = recorded(g).LastUsed,
                             !.Quota.UsedRequests = recorded(g).Quota.UsedRequests,
                             !.Quota.UsedTokens = recorded(g).Quota.UsedTokens]]
    /\ calls' = [calls EXCEPT ![g].pc = "errors"]
    /\ UNCHANGED <<providers, models, quotaPool, rareModels, usageHistory, config,
                   now, passes, ret, mu,
                   agentVars>>

\* RecordUsage: the stores to Latency, ErrorCount and Status.
RecordErrors(g) ==
    /\ calls[g].pc = "errors"
    /\ heap' = [heap EXCEPT ![calls[g].local.addr] =
                   [@ EXCEPT !.Latency = recorded(g).Latency,
                             !.ErrorCount = recorded(g).ErrorCount,
                             !.Status = recorded(g).Status]]
    /\ calls' = [calls EXCEPT ![g].pc = "history"]
    /\ UNCHANGED <<providers, models, quotaPool, rareModels, usageHistory, config,
                   now, passes, ret, mu,
                   agentVars>>

\* RecordUsage: the append to the history and its cut.
RecordHistory(g) ==
    /\ calls[g].pc = "history"
    /\ usageHistory' = appendHistory(usageHistory,
                          [Time |-> now, Provider |-> calls[g].arg.provider,
                           Model |-> calls[g].arg.model, Tokens |-> calls[g].arg.tokens,
                           Latency |-> calls[g].arg.latency,
                           Success |-> calls[g].arg.success])
    /\ now' = now + 1
    /\ calls' = [calls EXCEPT ![g].pc = "Unlock"]
    /\ UNCHANGED <<providers, models, quotaPool, rareModels, config, heap, passes,
                   ret, mu,
                   agentVars>>

\* The deferred r.mu.Unlock(), and the return.
Unlock(g) ==
    /\ calls[g].pc = "Unlock"
    /\ mu' = [mu EXCEPT !.writer = FALSE]
    /\ ret' = IF calls[g].op = "AutoDiscover" THEN [op |-> "AutoDiscover"]
              ELSE [op |-> "RecordUsage", provider |-> calls[g].arg.provider,
                    success |-> calls[g].arg.success]
    /\ calls' = [calls EXCEPT ![g] = Idle(calls[g].n)]
    /\ UNCHANGED <<providers, models, quotaPool, rareModels, usageHistory, config,
                   heap, now, passes,
                   agentVars>>

\* Route between RLock and the deferred RUnlock.
RouteBody(g) ==
    LET r == routeResult(calls[g].arg.modelID, calls[g].arg.tokenEstimate)
    IN  /\ calls[g].pc = "route"
        /\ models' = [models EXCEPT ![calls[g].arg.modelID] = r.index]
        /\ calls' = [calls EXCEPT ![g].pc = "RUnlock",
                                  ![g].local = [provider |-> r.provider, err |-> r.err]]
        /\ UNCHANGED <<providers, quotaPool, rareModels, usageHistory, config, heap,
                       now, passes, ret, mu,
                   agentVars>>

\* GetStats between RLock and the deferred RUnlock.
StatsBody(g) ==
    /\ calls[g].pc = "stats"
    /\ calls' = [calls EXCEPT ![g].pc = "RUnlock", ![g].local = RouterStats]
    /\ UNCHANGED <<providers, models, quotaPool, rareModels, usageHistory, config,
                   heap, now, passes, ret, mu,
                   agentVars>>

\* The deferred r.mu.RUnlock(), and the return.
RUnlock(g) ==
    /\ calls[g].pc = "RUnlock"
    /\ mu' = [mu EXCEPT !.readers = @ - 1]
    /\ ret' = IF calls[g].op = "GetStats"
              THEN [op |-> "GetStats", stats |-> calls[g].local]
              ELSE [op |-> "Route", modelID |-> calls[g].arg.modelID,
                    tokenEstimate |-> calls[g].arg.tokenEstimate,
                    provider |-> calls[g].local.provider, err |-> calls[g].local.err]
    /\ calls' = [calls EXCEPT ![g] = Idle(calls[g].n)]
    /\ UNCHANGED <<providers, models, quotaPool, rareModels, usageHistory, config,
                   heap, now, passes,
                   agentVars>>

(***************************************************************************)
(* Sisyphus (internal/agents/sisyphus.go)                                  *)
(***************************************************************************)
\* What GenerateWithTools can return: an error, a response without a
\* completion marker, a response with one (isTaskComplete).
Responses == {"error", "progress", "complete"}
isTaskComplete(response) == response = "complete"

ErrCanceled == "context canceled"
ErrMaxRetries == "max retries exceeded"
ErrNotPaused == "agent not paused"

\* go s.Work(ctx, task) on goroutine g.
CallWork(g) ==
    /\ sisyphusCalls[g].pc = "idle"
    /\ sisyphusCalls[g].n < MaxWorkCalls
    /\ sisyphusCalls' = [sisyphusCalls EXCEPT ![g] =
                            [NoWork(@.n + 1) EXCEPT !.op = "Work", !.pc = "start"]]
    /\ UNCHANGED <<routerVars, ret, sisyphus, hephaestus, hephaestusCalls, manager>>

\* Resume up to its call of Work: under the lock, the status is tested and
\* set to running.
Resume(g) ==
    /\ sisyphusCalls[g].pc = "idle"
    /\ sisyphusCalls[g].n < MaxWorkCalls
    /\ IF sisyphus.status # StatusPaused
       THEN /\ ret' = [op |-> "Resume", err |-> ErrNotPaused]
            /\ sisyphusCalls' = [sisyphusCalls EXCEPT ![g] = NoWork(@.n + 1)]
            /\ UNCHANGED sisyphus
       ELSE /\ sisyphus' = [sisyphus EXCEPT !.status = StatusRunning]
            /\ sisyphusCalls' = [sisyphusCalls EXCEPT ![g] =
                                    [NoWork(@.n + 1) EXCEPT !.op = "Resume", !.pc = "start"]]
            /\ UNCHANGED ret
    /\ UNCHANGED <<routerVars, hephaestus, hephaestusCalls, manager>>

\* Work, lines 100-105: under the lock, the task is stored, the status set to
\* running and the iteration count reset.
WorkStart(g) ==
    /\ sisyphusCalls[g].pc = "start"
    /\ sisyphus' = [sisyphus EXCEPT !.task = "task", !.status = StatusRunning,
                                    !.iterations = 0]
    /\ sisyphusCalls' = [sisyphusCalls EXCEPT ![g].pc = "loop"]
    /\ UNCHANGED <<routerVars, ret, hephaestus, hephaestusCalls, manager>>

\* The loop condition `s.iterations < s.maxRetries`.
WorkLoop(g) ==
    /\ sisyphusCalls[g].pc = "loop"
    /\ sisyphusCalls' = [sisyphusCalls EXCEPT ![g].pc =
                            IF sisyphus.iterations < sisyphus.maxRetries
                            THEN "select" ELSE "failed"]
    /\ UNCHANGED <<routerVars, ret, sisyphus, hephaestus, hephaestusCalls, manager>>

\* The select on ctx.Done(): on a cancelled context the status is set to
\* paused and Work returns ctx.Err(); otherwise the default case is taken and
\* `s.iterations++` loads the count.
WorkSelect(g) ==
    /\ sisyphusCalls[g].pc = "select"
    /\ IF sisyphusCalls[g].ctxDone
       THEN /\ sisyphus' = [sisyphus EXCEPT !.status = StatusPaused]
            /\ sisyphusCalls' = [sisyphusCalls EXCEPT ![g].pc = "return",
                                                      ![g].err = ErrCanceled]
       ELSE /\ sisyphusCalls' = [sisyphusCalls EXCEPT ![g].pc = "store",
                                                      ![g].iter = sisyphus.iterations]
            /\ UNCHANGED sisyphus
    /\ UNCHANGED <<routerVars, ret, hephaestus, hephaestusCalls, manager>>

\* `s.iterations++` stores the incremented count; no lock is held.
WorkStore(g) ==
    /\ sisyphusCalls[g].pc = "store"
    /\ sisyphus' = [sisyphus EXCEPT !.iterations = sisyphusCalls[g].iter + 1]
    /\ sisyphusCalls' = [sisyphusCalls EXCEPT ![g].pc = "generate"]
    /\ UNCHANGED <<routerVars, ret, hephaestus, hephaestusCalls, manager>>

\* s.provider.GenerateWithTools returns: on an error the loop continues, on a
\* response with a completion marker Work returns nil, else the loop continues.
WorkGenerate(g, response) ==
    /\ sisyphusCalls[g].pc = "generate"
    /\ sisyphusCalls' = [sisyphusCalls EXCEPT
                            ![g].generated = @ + 1,
                            ![g].pc = IF response # "error" /\ isTaskComplete(response)
                                      THEN "return" ELSE "loop"]
    /\ UNCHANGED <<routerVars, ret, sisyphus, hephaestus, hephaestusCalls, manager>>

\* After the loop: the status is set to failed and the max-retries error
\* returned.
WorkFailed(g) ==
    /\ sisyphusCalls[g].pc = "failed"
    /\ sisyphus' = [sisyphus EXCEPT !.status = StatusFailed]
    /\ sisyphusCalls' = [sisyphusCalls EXCEPT ![g].pc = "return", ![g].err = ErrMaxRetries]
    /\ UNCHANGED <<routerVars, ret, hephaestus, hephaestusCalls, manager>>

\* The deferred function (a status still running becomes complete) and the
\* return of Work.
WorkReturn(g) ==
    /\ sisyphusCalls[g].pc = "return"
    /\ sisyphus' = [sisyphus EXCEPT !.status =
                        IF @ = StatusRunning THEN StatusComplete ELSE @]
    /\ ret' = [op |-> "Work", err |-> sisyphusCalls[g].err,
               status |-> sisyphus'.status,
               iterations |-> sisyphus.iterations,
               generated |-> sisyphusCalls[g].generated]
    /\ sisyphusCalls' = [sisyphusCalls EXCEPT ![g] = NoWork(@.n)]
    /\ UNCHANGED <<routerVars, hephaestus, hephaestusCalls, manager>>

\* Pause: under the lock, a running status becomes paused.
Pause ==
    /\ sisyphus' = [sisyphus EXCEPT !.status =
                        IF @ = StatusRunning THEN StatusPaused ELSE @]
    /\ ret' = [op |-> "Pause"]
    /\ UNCHANGED <<routerVars, sisyphusCalls, hephaestus, hephaestusCalls, manager>>

\* The context goroutine g's call runs under is cancelled.
CancelWork(g) ==
    /\ sisyphusCalls[g].pc # "idle"
    /\ ~sisyphusCalls[g].ctxDone
    /\ sisyphusCalls' = [sisyphusCalls EXCEPT ![g].ctxDone = TRUE]
    /\ UNCHANGED <<routerVars, ret, sisyphus, hephaestus, hephaestusCalls, manager>>

(***************************************************************************)
(* Hephaestus (internal/agents/hephaestus.go)                              *)
(***************************************************************************)
PanicSendClosed == "send on closed channel"
PanicCloseClosed == "close of closed channel"
ErrNotRunning == "agent not running"
ErrQueueFull == "work queue full"

\* A panic ends the program: no goroutine takes a step after it.
Alive == hephaestusCalls.panic = ""

\* go h.Start(ctx) on goroutine s.
CallStart(s) ==
    /\ Alive
    /\ hephaestusCalls.start[s].pc = "idle"
    /\ hephaestusCalls' = [hephaestusCalls EXCEPT !.start[s].pc = "run"]
    /\ UNCHANGED <<routerVars, ret, sisyphus, sisyphusCalls, hephaestus, manager>>

\* Start, lines 89-98: the status is set to running under the lock and
\* h.workers worker goroutines are started.
StartRun(s) ==
    /\ Alive
    /\ hephaestusCalls.start[s].pc = "run"
    /\ hephaestus' = [hephaestus EXCEPT !.status = StatusRunning]
    /\ hephaestusCalls' = [hephaestusCalls EXCEPT
                              !.start[s].pc = "wait",
                              !.worker[s] = [i \in 1..hephaestus.workers |-> "select"]]
    /\ UNCHANGED <<routerVars, ret, sisyphus, sisyphusCalls, manager>>

\* The context Start was called with is cancelled.
CancelStart(s) ==
    /\ Alive
    /\ hephaestusCalls.start[s].pc \in {"run", "wait"}
    /\ ~hephaestusCalls.start[s].ctxDone
    /\ hephaestusCalls' = [hephaestusCalls EXCEPT !.start[s].ctxDone = TRUE]
    /\ UNCHANGED <<routerVars, ret, sisyphus, sisyphusCalls, hephaestus, manager>>

\* Start, lines 101-105: <-ctx.Done() returns and the status is set to paused
\* under the lock.
StartPause(s) ==
    /\ Alive
    /\ hephaestusCalls.start[s].pc = "wait"
    /\ hephaestusCalls.start[s].ctxDone
    /\ hephaestus' = [hephaestus EXCEPT !.status = StatusPaused]
    /\ hephaestusCalls' = [hephaestusCalls EXCEPT !.start[s].pc = "close"]
    /\ UNCHANGED <<routerVars, ret, sisyphus, sisyphusCalls, manager>>

\* close(h.workQueue); closing a closed channel panics.
StartClose(s) ==
    /\ Alive
    /\ hephaestusCalls.start[s].pc = "close"
    /\ IF hephaestus.workQueue.closed
       THEN /\ hephaestusCalls' = [hephaestusCalls EXCEPT !.panic = PanicCloseClosed]
            /\ UNCHANGED hephaestus
       ELSE /\ hephaestus' = [hephaestus EXCEPT !.workQueue.closed = TRUE]
            /\ hephaestusCalls' = [hephaestusCalls EXCEPT !.start[s].pc = "wgWait"]
    /\ UNCHANGED <<routerVars, ret, sisyphus, sisyphusCalls, manager>>

\* wg.Wait() returns when every worker of this Start has called wg.Done();
\* Start returns ctx.Err().
StartReturn(s) ==
    /\ Alive
    /\ hephaestusCalls.start[s].pc = "wgWait"
    /\ \A i \in DOMAIN hephaestusCalls.worker[s] : hephaestusCalls.worker[s][i] = "done"
    /\ hephaestusCalls' = [hephaestusCalls EXCEPT !.start[s].pc = "returned"]
    /\ ret' = [op |-> "Start", err |-> ErrCanceled]
    /\ UNCHANGED <<routerVars, sisyphus, sisyphusCalls, hephaestus, manager>>

\* worker, the select: the case <-ctx.Done() is ready, or the receive finds
\* the queue closed and empty; the worker returns (deferred wg.Done()).
WorkerExit(s, i) ==
    /\ Alive
    /\ i \in DOMAIN hephaestusCalls.worker[s]
    /\ hephaestusCalls.worker[s][i] = "select"
    /\ \/ hephaestusCalls.start[s].ctxDone
       \/ hephaestus.workQueue.closed /\ hephaestus.workQueue.len = 0
    /\ hephaestusCalls' = [hephaestusCalls EXCEPT !.worker[s][i] = "done"]
    /\ UNCHANGED <<routerVars, ret, sisyphus, sisyphusCalls, hephaestus, manager>>

\* worker, the select: a task is received from the queue and processTask runs.
WorkerReceive(s, i) ==
    /\ Alive
    /\ i \in DOMAIN hephaestusCalls.worker[s]
    /\ hephaestusCalls.worker[s][i] = "select"
    /\ hephaestus.workQueue.len > 0
    /\ hephaestus' = [hephaestus EXCEPT !.workQueue.len = @ - 1]
    /\ hephaestusCalls' = [hephaestusCalls EXCEPT !.worker[s][i] = "deliver"]
    /\ UNCHANGED <<routerVars, ret, sisyphus, sisyphusCalls, manager>>

\* worker, `h.results <- result`: the send blocks while the channel is full.
WorkerDeliver(s, i) ==
    /\ Alive
    /\ i \in DOMAIN hephaestusCalls.worker[s]
    /\ hephaestusCalls.worker[s][i] = "deliver"
    /\ hephaestus.results < ResultsCap
    /\ hephaestus' = [hephaestus EXCEPT !.results = @ + 1]
    /\ hephaestusCalls' = [hephaestusCalls EXCEPT !.worker[s][i] = "select"]
    /\ UNCHANGED <<routerVars, ret, sisyphus, sisyphusCalls, manager>>

\* Submit, lines 186-192: the status is read under the read lock; unless it
\* is running Submit returns the not-running error.
SubmitRead(b) ==
    /\ Alive
    /\ hephaestusCalls.submit[b].pc = "idle"
    /\ IF hephaestus.status # StatusRunning
       THEN /\ ret' = [op |-> "Submit", err |-> ErrNotRunning, status |-> hephaestus.status]
            /\ hephaestusCalls' = [hephaestusCalls EXCEPT !.submit[b].n = @ + 1]
       ELSE /\ hephaestusCalls' = [hephaestusCalls EXCEPT !.submit[b].pc = "send",
                                                          !.submit[b].n = @ + 1]
            /\ UNCHANGED ret
    /\ UNCHANGED <<routerVars, sisyphus, sisyphusCalls, hephaestus, manager>>

\* Submit, the select: a send on a closed channel panics; else the task is
\* queued when there is room, and the default case returns the queue-full
\* error when there is none.
SubmitSend(b) ==
    /\ Alive
    /\ hephaestusCalls.submit[b].pc = "send"
    /\ IF hephaestus.workQueue.closed
       THEN /\ hephaestusCalls' = [hephaestusCalls EXCEPT !.panic = PanicSendClosed]
            /\ UNCHANGED <<hephaestus, ret>>
       ELSE /\ hephaestusCalls' = [hephaestusCalls EXCEPT !.submit[b].pc = "idle"]
            /\ IF hephaestus.workQueue.len < QueueCap
               THEN /\ hephaestus' = [hephaestus EXCEPT !.workQueue.len = @ + 1]
                    /\ ret' = [op |-> "Submit", err |-> "", status |-> StatusRunning]
               ELSE /\ ret' = [op |-> "Submit", err |-> ErrQueueFull,
                               status |-> StatusRunning]
                    /\ UNCHANGED hephaestus
    /\ UNCHANGED <<routerVars, sisyphus, sisyphusCalls, manager>>

\* A consumer receives one result from the channel Results() returns.
ReadResult ==
    /\ Alive
    /\ hephaestus.results > 0
    /\ hephaestus' = [hephaestus EXCEPT !.results = @ - 1]
    /\ UNCHANGED <<routerVars, ret, sisyphus, sisyphusCalls, hephaestusCalls, manager>>

(***************************************************************************)
(* MCP manager (internal/mcp/manager.go)                                   *)
(***************************************************************************)
\* The servers callers register: two names, each with any list of the tools.
ServerNames == {"files", "shell"}
ToolNames == {"read", "run"}
ToolLists == {<<>>, <<"read">>, <<"run">>, <<"read", "run">>}
Servers == [Name : ServerNames, Tools : ToolLists]

ErrToolNotFound == "tool not found"
ErrServerNotFound == "server not found for tool"
ErrNotImplemented == "MCP protocol call not implemented yet"

\* The map m without the key k, and with the key k set to v.
Without(m, k) == [x \in DOMAIN m \ {k} |-> m[x]]
With(m, k, v) == [x \in DOMAIN m \cup {k} |-> IF x = k THEN v ELSE m[x]]

\* RegisterServer, the loop: each tool of the server is indexed under its
\* name, with the server's name on it.
RECURSIVE indexTools(_, _, _)
indexTools(tools, server, i) ==
    IF i > Len(server.Tools) THEN tools
    ELSE indexTools(With(tools, server.Tools[i],
                         [Name |-> server.Tools[i], ServerName |-> server.Name]),
                    server, i + 1)

\* UnregisterServer, the loop: each tool name of the server is deleted from
\* the index.
RECURSIVE removeTools(_, _, _)
removeTools(tools, server, i) ==
    IF i > Len(server.Tools) THEN tools
    ELSE removeTools(Without(tools, server.Tools[i]), server, i + 1)

RegisterServer(server) ==
    /\ manager' = [servers |-> With(manager.servers, server.Name, server),
                   tools |-> indexTools(manager.tools, server, 1)]
    /\ ret' = [op |-> "RegisterServer", err |-> ""]
    /\ UNCHANGED <<routerVars, sisyphus, sisyphusCalls, hephaestus, hephaestusCalls>>

UnregisterServer(name) ==
    /\ IF name \in DOMAIN manager.servers
       THEN manager' = [servers |-> Without(manager.servers, name),
                        tools |-> removeTools(manager.tools, manager.servers[name], 1)]
       ELSE UNCHANGED manager
    /\ ret' = [op |-> "UnregisterServer"]
    /\ UNCHANGED <<routerVars, sisyphus, sisyphusCalls, hephaestus, hephaestusCalls>>

\* CallTool: the tool is looked up in the index, then its server in the
\* registry.
CallTool(name) ==
    /\ ret' = [op |-> "CallTool", name |-> name,
               err |-> IF name \notin DOMAIN manager.tools THEN ErrToolNotFound
                       ELSE IF manager.tools[name].ServerName \notin DOMAIN manager.servers
                            THEN ErrServerNotFound
                       ELSE ErrNotImplemented]
    /\ UNCHANGED <<routerVars, agentVars>>

(***************************************************************************)
(* Specifications                                                          *)
(***************************************************************************)
Discover == \E outcome \in DiscoveryOutcomes : AutoDiscover(outcome)

Routing == \E modelID \in ModelIDs, tokenEstimate \in TokenEstimates :
              Route(modelID, tokenEstimate)

Recording(accounts) ==
    \E provider \in accounts, model \in RecordModels, tokens \in RecordTokens,
       latency \in RecordLatencies, success \in BOOLEAN :
       RecordUsage(provider, model, tokens, latency, success)

\* Every account records usage; short runs.
Next ==
    \/ (passes < MaxPasses /\ Discover)
    \/ Routing
    \/ (now < MaxClock /\ Recording(Names))
    \/ GetStats

Spec == Init /\ [][Next]_vars

\* One account records usage; runs long enough for the error threshold.
NextDeep ==
    \/ (passes < MaxPasses /\ Discover)
    \/ Routing
    \/ (now < MaxDeepClock /\ Recording(DeepProviders))
    \/ GetStats

SpecDeep == Init /\ [][NextDeep]_vars

\* AutoDiscover is called again on a router that has already discovered.
NextRediscover ==
    \/ (passes < MaxRediscover /\ Discover)
    \/ Routing
    \/ (now < MaxRediscoverClock /\ Recording(DeepProviders))
    \/ GetStats

SpecRediscover == Init /\ [][NextRediscover]_vars

\* Calls of RecordUsage with varied token counts and latency samples.
UsageRecording ==
    \E provider \in DeepProviders, model \in RecordModels, tokens \in UsageTokens,
       latency \in UsageLatencies, success \in BOOLEAN :
       RecordUsage(provider, model, tokens, latency, success)

NextUsage ==
    \/ (passes < MaxPasses /\ Discover)
    \/ (now < MaxUsageClock /\ UsageRecording)

SpecUsage == Init /\ [][NextUsage]_vars

\* One long run of successful calls, after a discovery at start-up: the history
\* grows past its cap.
HistoryRecording ==
    \E provider \in DeepProviders, model \in RecordModels, tokens \in RecordTokens,
       latency \in RecordLatencies :
       RecordUsage(provider, model, tokens, latency, TRUE)

NextHistory ==
    \/ (passes < MaxPasses /\ usageHistory = <<>> /\ Discover)
    \/ (now < MaxHistoryClock /\ HistoryRecording)

SpecHistory == Init /\ [][NextHistory]_vars

\* Providers with comparable quotas are used with different latencies, then
\* ranked.
RankRecording ==
    \E provider \in Names, model \in RecordModels, tokens \in RecordTokens,
       latency \in UsageLatencies :
       RecordUsage(provider, model, tokens, latency, TRUE)

NextRank ==
    \/ (passes < MaxPasses /\ usageHistory = <<>>
          /\ \E outcome \in RankOutcomes : AutoDiscover(outcome))
    \/ (now < MaxRankClock /\ RankRecording)
    \/ \E modelID \in RecordModels, tokenEstimate \in RecordTokens :
          Route(modelID, tokenEstimate)

SpecRank == Init /\ [][NextRank]_vars

\* One account is used with successes and failures in any order after a
\* discovery at start-up, and the router keeps serving Route and GetStats.
ErrorRecording ==
    \E provider \in DeepProviders, model \in RecordModels, tokens \in RecordTokens,
       latency \in RecordLatencies, success \in BOOLEAN :
       RecordUsage(provider, model, tokens, latency, success)

NextErrors ==
    \/ (passes < MaxPasses /\ usageHistory = <<>> /\ Discover)
    \/ (now < MaxErrorClock /\ ErrorRecording)
    \/ \E modelID \in RecordModels, tokenEstimate \in RecordTokens :
          Route(modelID, tokenEstimate)
    \/ GetStats

SpecErrors == Init /\ [][NextErrors]_vars

\* A provider without a daily request limit is registered, used and routed to.
NextZeroLimit ==
    \/ (passes < MaxPasses /\ \E outcome \in ZeroLimitOutcomes : AutoDiscover(outcome))
    \/ (now < MaxClock /\ Recording(Names))
    \/ Routing

SpecZeroLimit == Init /\ [][NextZeroLimit]_vars

\* A caller that uses the router as intended: it calls Route, sends its
\* request to the provider Route returned, and then calls RecordUsage for that
\* provider. CallerRoute is the whole Route call, the returned pointer is kept
\* by the caller.
CallerRoute(g, modelID, tokenEstimate) ==
    LET r == routeResult(modelID, tokenEstimate)
    IN  /\ calls[g].pc = "idle"
        /\ calls[g].n < MaxRounds
        /\ ret' = [op |-> "Route", modelID |-> modelID, tokenEstimate |-> tokenEstimate,
                   provider |-> r.provider, err |-> r.err]
        /\ models' = [models EXCEPT ![modelID] = r.index]
        /\ calls' = [calls EXCEPT ![g] =
                        IF r.provider = Nil THEN Idle(calls[g].n + 1)
                        ELSE [op |-> "RecordUsage", pc |-> "routed", n |-> calls[g].n + 1,
                              arg |-> [modelID |-> modelID, tokens |-> tokenEstimate],
                              local |-> [provider |-> r.provider]]]
        /\ UNCHANGED <<providers, quotaPool, rareModels, usageHistory, config, heap,
                       now, passes, mu,
                   agentVars>>

\* The whole RecordUsage call of a caller, for the provider it was routed to.
CallerRecord(g, latency, success) ==
    LET provider == heap[calls[g].local.provider].Name
    IN  /\ calls[g].pc = "routed"
        /\ IF provider \in DOMAIN providers
           THEN heap' = [heap EXCEPT ![providers[provider]] =
                            recordOn(@, calls[g].arg.tokens, latency, success)]
           ELSE UNCHANGED heap
        /\ usageHistory' = appendHistory(usageHistory,
                              [Time |-> now, Provider |-> provider,
                               Model |-> calls[g].arg.modelID,
                               Tokens |-> calls[g].arg.tokens,
                               Latency |-> latency, Success |-> success])
        /\ now' = now + 1
        /\ ret' = [op |-> "RecordUsage", provider |-> provider, success |-> success]
        /\ calls' = [calls EXCEPT ![g] = Idle(calls[g].n)]
        /\ UNCHANGED <<providers, models, quotaPool, rareModels, config, passes, mu,
                   agentVars>>

\* Two callers share the router after a discovery at start-up.
NextCallers ==
    \/ (passes < MaxPasses /\ usageHistory = <<>>
          /\ (\A g \in Goroutines : calls[g].pc = "idle")
          /\ Discover)
    \/ \E g \in Goroutines, modelID \in RecordModels, tokenEstimate \in RecordTokens :
          CallerRoute(g, modelID, tokenEstimate)
    \/ \E g \in Goroutines, latency \in RecordLatencies, success \in BOOLEAN :
          CallerRecord(g, latency, success)

SpecCallers == Init /\ [][NextCallers]_vars

\* One caller repeats the cycle of a Route call followed by a RecordUsage call
\* for the provider Route returned, after one discovery at start-up.
NextBalance ==
    \/ (passes = 0 /\ AutoDiscover(BalancedOutcome))
    \/ (/\ passes > 0
        /\ ret.op = "Route" => ret.provider = Nil
        /\ \E modelID \in RecordModels, tokenEstimate \in RecordTokens :
              Route(modelID, tokenEstimate))
    \/ (/\ now < MaxBalanceClock
        /\ ret.op = "Route" /\ ret.provider # Nil
        /\ \E latency \in UsageLatencies, success \in BOOLEAN :
              RecordUsage(heap[ret.provider].Name, ret.modelID, ret.tokenEstimate,
                          latency, success))

SpecBalance == Init /\ [][NextBalance]_vars

\* The catalog is queried for every model and strategy.
NextRegistry ==
    \E modelID \in QueryModels, strategy \in Strategies : BestProvider(modelID, strategy)

SpecRegistry == Init /\ [][NextRegistry]_vars

\* A Sisyphus agent with a small retry budget: goroutine 1 calls Work,
\* goroutine 2 calls Resume, anybody calls Pause, and contexts are cancelled.
RetryBudgets == 0..MaxBudget

InitSisyphus ==
    /\ ConstructedRouter({[PreferFast |-> FALSE, PreferCheap |-> FALSE,
                           QuotaReservePercent |-> [Num |-> 0, Den |-> 1]]})
    /\ \E maxRetries \in RetryBudgets : sisyphus = NewSisyphus(maxRetries)
    /\ sisyphusCalls = [g \in SisyphusGoroutines |-> NoWork(0)]
    /\ hephaestus = NewHephaestus(DefaultWorkers)
    /\ hephaestusCalls = NoForge
    /\ manager = NewManager

NextSisyphus ==
    \/ CallWork(1)
    \/ Resume(2)
    \/ \E g \in SisyphusGoroutines : WorkStart(g)
    \/ \E g \in SisyphusGoroutines : WorkLoop(g)
    \/ \E g \in SisyphusGoroutines : WorkSelect(g)
    \/ \E g \in SisyphusGoroutines : WorkStore(g)
    \/ \E g \in SisyphusGoroutines, response \in Responses : WorkGenerate(g, response)
    \/ \E g \in SisyphusGoroutines : WorkFailed(g)
    \/ \E g \in SisyphusGoroutines : WorkReturn(g)
    \/ Pause
    \/ \E g \in SisyphusGoroutines : CancelWork(g)

SpecSisyphus == InitSisyphus /\ [][NextSisyphus]_vars

\* A Hephaestus agent: two goroutines call Start on it, one submits tasks, a
\* consumer reads results, and the contexts are cancelled at any time.
WorkerCounts == 1..MaxWorkers

InitHephaestus ==
    /\ ConstructedRouter({[PreferFast |-> FALSE, PreferCheap |-> FALSE,
                           QuotaReservePercent |-> [Num |-> 0, Den |-> 1]]})
    /\ sisyphus = NewSisyphus(DefaultMaxRetries)
    /\ sisyphusCalls = [g \in SisyphusGoroutines |-> NoWork(0)]
    /\ \E workers \in WorkerCounts : hephaestus = NewHephaestus(workers)
    /\ hephaestusCalls = NoForge
    /\ manager = NewManager

NextHephaestus ==
    \/ \E s \in Starters : CallStart(s)
    \/ \E s \in Starters : StartRun(s)
    \/ \E s \in Starters : CancelStart(s)
    \/ \E s \in Starters : StartPause(s)
    \/ \E s \in Starters : StartClose(s)
    \/ \E s \in Starters : StartReturn(s)
    \/ \E s \in Starters, i \in 1..MaxWorkers : WorkerExit(s, i)
    \/ \E s \in Starters, i \in 1..MaxWorkers : WorkerReceive(s, i)
    \/ \E s \in Starters, i \in 1..MaxWorkers : WorkerDeliver(s, i)
    \/ \E b \in Submitters :
          hephaestusCalls.submit[b].n < MaxSubmits /\ SubmitRead(b)
    \/ \E b \in Submitters : SubmitSend(b)
    \/ ReadResult

SpecHephaestus == InitHephaestus /\ [][NextHephaestus]_vars

\* One Start on a Hephaestus agent whose results nobody reads: tasks are
\* submitted one at a time while the agent runs and its workers are waiting.
WorkersWaiting ==
    \A i \in DOMAIN hephaestusCalls.worker[1] : hephaestusCalls.worker[1][i] = "select"

NextForge ==
    \/ CallStart(1)
    \/ StartRun(1)
    \/ CancelStart(1)
    \/ StartPause(1)
    \/ StartClose(1)
    \/ StartReturn(1)
    \/ \E i \in 1..MaxWorkers : WorkerExit(1, i)
    \/ \E i \in 1..MaxWorkers : WorkerReceive(1, i)
    \/ \E i \in 1..MaxWorkers : WorkerDeliver(1, i)
    \/ (/\ hephaestusCalls.submit[1].n < MaxForgeTasks
        /\ hephaestus.status = StatusRunning
        /\ hephaestus.workQueue.len = 0
        /\ WorkersWaiting
        /\ SubmitRead(1))
    \/ SubmitSend(1)

\* The Go scheduler runs every goroutine that can take a step: Start, the
\* workers and a Submit that is under way are not starved.
FairForge ==
    /\ WF_vars(StartRun(1))
    /\ WF_vars(StartPause(1))
    /\ WF_vars(StartClose(1))
    /\ WF_vars(StartReturn(1))
    /\ WF_vars(SubmitSend(1))
    /\ \A i \in 1..MaxWorkers :
          /\ WF_vars(WorkerExit(1, i))
          /\ WF_vars(WorkerReceive(1, i))
          /\ WF_vars(WorkerDeliver(1, i))

SpecForge == InitHephaestus /\ [][NextForge]_vars /\ FairForge

\* Servers are registered and unregistered in any order, and tools are called.
NextManager ==
    \/ \E server \in Servers : RegisterServer(server)
    \/ \E name \in ServerNames : UnregisterServer(name)
    \/ \E name \in ToolNames : CallTool(name)

SpecManager == Init /\ [][NextManager]_vars

\* The router is constructed with any configuration a caller can pass.
InitConfig == Constructed(AnyRouterConfig)

NextConfig ==
    \/ (passes < MaxPasses /\ Discover)
    \/ Routing
    \/ GetStats

SpecConfig == InitConfig /\ [][NextConfig]_vars

\* Goroutines call the router concurrently.
NextConcurrent ==
    \/ \E g \in Goroutines, c \in ConcurrentCalls : Go(g, c)
    \/ \E g \in Goroutines : Lock(g)
    \/ \E g \in Goroutines : RLock(g)
    \/ \E g \in Goroutines : DiscoverBody(g)
    \/ \E g \in Goroutines : RecordLoad(g)
    \/ \E g \in Goroutines : RecordQuota(g)
    \/ \E g \in Goroutines : RecordErrors(g)
    \/ \E g \in Goroutines : RecordHistory(g)
    \/ \E g \in Goroutines : Unlock(g)
    \/ \E g \in Goroutines : RouteBody(g)
    \/ \E g \in Goroutines : StatsBody(g)
    \/ \E g \in Goroutines : RUnlock(g)

SpecConcurrent == Init /\ [][NextConcurrent]_vars

(***************************************************************************)
(* Properties.  `ret` holds what the last call returned; Route changes no  *)
(* router state, so a state with ret.op = "Route" is the state the call    *)
(* observed.                                                               *)
(***************************************************************************)
Candidates == models[ret.modelID]

TokensFit(p, tokenEstimate) ==
    p.Quota.TokensPerDay > 0 => p.Quota.UsedTokens + tokenEstimate <= p.Quota.TokensPerDay

InReserve(p) == p.Quota.UsedRequests >= p.Quota.RequestsPerDay - reserveOf(p)

\* C1: every provider Route returns is active, has used fewer requests than
\* its daily ceiling and, when it declares a token ceiling, stays within it
\* with the estimate added.
C1_RoutedProviderAdmissible ==
    (ret.op = "Route" /\ ret.provider # Nil) =>
        LET p == heap[ret.provider] IN
        /\ p.Status = StatusActive
        /\ p.Quota.UsedRequests < p.Quota.RequestsPerDay
        /\ TokensFit(p, ret.tokenEstimate)

\* Route returned a provider while another candidate of the model is in error.
C1_Witness ==
    /\ ret.op = "Route"
    /\ ret.provider # Nil
    /\ \E i \in 1..Len(Candidates) : heap[Candidates[i].Provider].Status = StatusError

\* C2: Route fails with the not-found error exactly when the index has no
\* entry for the model; with entries but no available provider it fails with
\* the other error, and a failed Route returns no provider.
C2_NotFoundIffNoEntry ==
    ret.op = "Route" =>
        /\ ret.err = ErrNotFound <=> Len(Candidates) = 0
        /\ (/\ Len(Candidates) > 0
            /\ \A i \in 1..Len(Candidates) :
                  ~isProviderAvailable(heap[Candidates[i].Provider], ret.tokenEstimate))
           => ret.err = ErrNoProvider
        /\ ErrNotFound # ErrNoProvider
        /\ ret.err # "" => ret.provider = Nil

\* Route failed on an indexed model: none of its providers was available.
C2_Witness ==
    /\ ret.op = "Route"
    /\ Len(Candidates) > 0
    /\ ret.err = ErrNoProvider

\* C3: on an indexed model Route returns the first entry of the ranked order
\* whose provider is available, and fails exactly when none is.
C3_FirstAvailableInRankedOrder ==
    (ret.op = "Route" /\ Len(Candidates) > 0) =>
        LET ranked == rankProviders(Candidates, ret.tokenEstimate).ranked
            ok(i) == isProviderAvailable(heap[ranked[i].Provider], ret.tokenEstimate)
        IN  /\ ret.err = ErrNoProvider <=> \A i \in 1..Len(ranked) : ~ok(i)
            /\ ret.err = ErrNoProvider <=> ret.provider = Nil
            /\ ret.provider # Nil =>
                  \E i \in 1..Len(ranked) :
                     /\ ranked[i].Provider = ret.provider
                     /\ ok(i)
                     /\ \A j \in 1..(i - 1) : ~ok(j)

\* Route skipped the best-ranked entry, which was not available, for the next.
C3_Witness ==
    /\ ret.op = "Route"
    /\ ret.provider # Nil
    /\ rankProviders(Candidates, ret.tokenEstimate).ranked[1].Provider # ret.provider

ErrorAfterFourFailures ==
    \A a \in DOMAIN heap : heap[a].Status = StatusError <=> heap[a].ErrorCount >= 4

NeverRoutesError ==
    (ret.op = "Route" /\ ret.provider # Nil) => heap[ret.provider].Status # StatusError

ErrorIsSticky ==
    \A a \in DOMAIN heap : heap[a].Status = StatusError => heap'[a].Status = StatusError

\* C4: a provider record is in error exactly from its fourth failed
\* RecordUsage on (three failures leave it active); Route never returns a
\* record in error, and no operation of the router takes a record out of error.
C4_ErrorRetiresProvider ==
    /\ []ErrorAfterFourFailures
    /\ []NeverRoutesError
    /\ [][ErrorIsSticky]_vars

FailuresOf(name) ==
    Cardinality({i \in 1..Len(usageHistory) :
                    usageHistory[i].Provider = name /\ ~usageHistory[i].Success})

\* Four failures were recorded on a registered provider, it is in error, and
\* Route on a model only it offers found no provider.
C4_Witness ==
    /\ ret.op = "Route"
    /\ ret.err = ErrNoProvider
    /\ \E n \in DOMAIN providers :
          /\ FailuresOf(n) = 4
          /\ heap[providers[n]].Status = StatusError
          /\ heap[providers[n]].Quota.UsedRequests < heap[providers[n]].Quota.RequestsPerDay
          /\ \A i \in 1..Len(Candidates) : Candidates[i].Provider = providers[n]

\* C5: a provider that is the exclusive source of a rare model is not
\* returned for a model that is not rare while its used requests are within
\* the reserve (used >= limit - reserve).
C5_ReservedNotRoutedForShared ==
    (ret.op = "Route" /\ ret.provider # Nil) =>
        LET p == heap[ret.provider] IN
        (providerHasRareModels(p.Name) /\ rareModels[ret.modelID] = NoProvider)
            => ~InReserve(p)

\* Route on a shared model passed over a rare-model provider that is active,
\* below its ceilings, inside its reserve, and has the better quota ratio.
C5_Witness ==
    /\ ret.op = "Route"
    /\ ret.provider # Nil
    /\ rareModels[ret.modelID] = NoProvider
    /\ \E i \in 1..Len(Candidates) :
          LET p == heap[Candidates[i].Provider] IN
          /\ Candidates[i].Provider # ret.provider
          /\ providerHasRareModels(p.Name)
          /\ p.Status = StatusActive
          /\ p.Quota.UsedRequests < p.Quota.RequestsPerDay
          /\ TokensFit(p, ret.tokenEstimate)
          /\ InReserve(p)
          /\ RatioGt(quotaRemaining(p), quotaRemaining(heap[ret.provider]))

\* C6: a Route for a rare model returns its exclusive provider whenever that
\* provider is active, below its request ceiling and within its token
\* ceiling, also when its used requests lie inside the reserve.
C6_RareRequestUsesReserve ==
    (ret.op = "Route" /\ Len(Candidates) = 1 /\ Candidates[1].IsExclusive) =>
        LET p == heap[Candidates[1].Provider] IN
        (/\ p.Status = StatusActive
         /\ p.Quota.UsedRequests < p.Quota.RequestsPerDay
         /\ TokensFit(p, ret.tokenEstimate))
            => ret.provider = Candidates[1].Provider

\* C7: a model with exactly one entry is routed to that entry's provider
\* whenever the provider is available, whatever PreferFast and PreferCheap are.
C7_SoleProviderRouted ==
    (ret.op = "Route" /\ Len(Candidates) = 1) =>
        (isProviderAvailable(heap[Candidates[1].Provider], ret.tokenEstimate)
            => ret.provider = Candidates[1].Provider)

\* The sole provider of a model was returned with both preferences enabled,
\* after it had served a request.
C7_Witness ==
    /\ ret.op = "Route"
    /\ Len(Candidates) = 1
    /\ ret.provider = Candidates[1].Provider
    /\ config.PreferFast /\ config.PreferCheap
    /\ heap[ret.provider].Latency > 0

\* C8: of two available providers of a model, neither with a rare model, the
\* one with the strictly higher (limit - used)/limit is returned.
C8_HigherQuotaRatioRouted ==
    (ret.op = "Route" /\ Len(Candidates) = 2) =>
        \A i, j \in 1..2 :
            LET a == heap[Candidates[i].Provider]
                b == heap[Candidates[j].Provider]
            IN  (/\ isProviderAvailable(a, ret.tokenEstimate)
                 /\ isProviderAvailable(b, ret.tokenEstimate)
                 /\ ~providerHasRareModels(a.Name)
                 /\ ~providerHasRareModels(b.Name)
                 /\ (a.Quota.RequestsPerDay - a.Quota.UsedRequests) * b.Quota.RequestsPerDay
                       > (b.Quota.RequestsPerDay - b.Quota.UsedRequests) * a.Quota.RequestsPerDay)
                => ret.provider = Candidates[i].Provider

\* With PreferCheap enabled the provider with the higher quota ratio was
\* returned although it costs more and was used more recently than the other.
C8_Witness ==
    /\ ret.op = "Route"
    /\ Len(Candidates) = 2
    /\ config.PreferCheap
    /\ \E i, j \in 1..2 :
          LET a == heap[Candidates[i].Provider]
              b == heap[Candidates[j].Provider]
          IN  /\ ret.provider = Candidates[i].Provider
              /\ isProviderAvailable(b, ret.tokenEstimate)
              /\ ~providerHasRareModels(a.Name) /\ ~providerHasRareModels(b.Name)
              /\ RatioGt(quotaRemaining(a), quotaRemaining(b))
              /\ a.Quota.RequestsPerDay # b.Quota.RequestsPerDay
              /\ Candidates[i].Model.InputCost > Candidates[j].Model.InputCost
              /\ a.LastUsed > b.LastUsed /\ b.LastUsed > 0

\* C9: a Route call changes nothing of the router: registry, provider
\* records, index (entries and their order), rare map, pools, history, config.
C9_RouteMutatesNothing ==
    [][ret'.op = "Route" =>
          UNCHANGED <<providers, heap, models, rareModels, quotaPool, usageHistory,
                      config, now, passes>>]_vars

\* Route ranked two entries into an order other than the stored one.
C9_Witness ==
    /\ ret.op = "Route"
    /\ ret.provider # Nil
    /\ rankProviders(Candidates, ret.tokenEstimate).ranked # Candidates

Reverse(s) == [i \in 1..Len(s) |-> s[Len(s) + 1 - i]]

\* C10: the comparator is a total order without ties on the entries of each
\* model: of two distinct entries exactly one sorts before the other, the
\* order is transitive, and the ranked output does not depend on the order of
\* the entries in the index.  (Irreflexivity is left out: less(e, e) is TRUE
\* for an exclusive entry, but sort.Slice never compares an entry with itself.)
C10_ComparatorTotalOrder ==
    \A m \in ModelIDs :
        /\ \A i, j, k \in 1..Len(models[m]) :
              LET a == models[m][i]
                  b == models[m][j]
                  c == models[m][k]
              IN  /\ i # j => (less(a, b) <=> ~less(b, a))
                  /\ (i # j /\ j # k /\ i # k /\ less(a, b) /\ less(b, c)) => less(a, c)
        /\ rankProviders(Reverse(models[m]), 1).ranked = rankProviders(models[m], 1).ranked

\* The provider of an index entry is the exclusive source of some rare model.
Burdened(e) == providerHasRareModels(heap[e.Provider].Name)

\* C11: in the ranked order of every model, an entry whose provider holds a
\* rare model and which is not the exclusive entry of the ranked model comes
\* after every entry whose provider holds no rare model; and Route does not
\* return such an entry's provider while a provider without rare models is
\* among the candidates and admissible.
C11_RareBurdenedRankedBelow ==
    /\ \A m \in ModelIDs :
          LET ranked == rankProviders(models[m], 1).ranked IN
          \A i, j \in 1..Len(ranked) :
              (Burdened(ranked[i]) /\ ~ranked[i].IsExclusive /\ ~Burdened(ranked[j]))
                  => j < i
    /\ (ret.op = "Route" /\ ret.provider # Nil) =>
          \A i, j \in 1..Len(Candidates) :
              (/\ Candidates[i].Provider = ret.provider
               /\ Burdened(Candidates[i])
               /\ ~Candidates[i].IsExclusive
               /\ ~Burdened(Candidates[j]))
                  => ~isProviderAvailable(heap[Candidates[j].Provider], ret.tokenEstimate)

\* C11 witness: the index lists a provider with rare models first, it is
\* admissible and not exclusive for the requested model, and Route returned
\* the provider without rare models listed after it.
C11_Witness ==
    /\ ret.op = "Route"
    /\ ret.provider # Nil
    /\ Len(Candidates) >= 2
    /\ Burdened(Candidates[1])
    /\ ~Candidates[1].IsExclusive
    /\ isProviderAvailable(heap[Candidates[1].Provider], ret.tokenEstimate)
    /\ \E j \in 2..Len(Candidates) :
          Candidates[j].Provider = ret.provider /\ ~Burdened(Candidates[j])

\* C12: an entry flagged exclusive for the model sorts before every other
\* entry it is compared with, also when its provider holds rare models and
\* the other provider holds none, and it is first in the ranked order.
C12_ExclusiveRankedFirst ==
    \A m \in ModelIDs :
        LET ranked == rankProviders(models[m], 1).ranked IN
        \A i, j \in 1..Len(models[m]) :
            (models[m][i].IsExclusive /\ i # j) =>
                /\ less(models[m][i], models[m][j])
                /\ ~less(models[m][j], models[m][i])
                /\ ranked[1] = models[m][i]

\* C12 witness: Route ranked an exclusive entry whose provider holds rare
\* models against an entry whose provider holds none, and returned the
\* exclusive entry's provider.
C12_Witness ==
    /\ ret.op = "Route"
    /\ \E i, j \in 1..Len(Candidates) :
          /\ Candidates[i].IsExclusive
          /\ Burdened(Candidates[i])
          /\ ~Burdened(Candidates[j])
          /\ isProviderAvailable(heap[Candidates[j].Provider], ret.tokenEstimate)
          /\ ret.provider = Candidates[i].Provider

\* The record of the RecordUsage call that led to the next state.
Recorded == usageHistory'[Len(usageHistory')]

\* A step of RecordUsage on a provider the registry holds.
RecordsRegistered == ret'.op = "RecordUsage" /\ ret'.provider \in DOMAIN providers

\* C13: RecordUsage on a registered provider adds exactly 1 to its used
\* requests and exactly the call's token count to its used tokens, and sets
\* its last-used time to the time of the call, for success and failure alike.
C13_UsageCounted ==
    [][RecordsRegistered =>
          LET a == providers[ret'.provider] IN
          /\ heap'[a].Quota.UsedRequests = heap[a].Quota.UsedRequests + 1
          /\ heap'[a].Quota.UsedTokens = heap[a].Quota.UsedTokens + Recorded.Tokens
          /\ heap'[a].LastUsed = now]_vars

\* C13 witness: a failed call of 3 tokens was recorded on a registered provider
\* that had one earlier call of 2 tokens.
C13_Witness ==
    /\ ret.op = "RecordUsage"
    /\ ~ret.success
    /\ ret.provider \in DOMAIN providers
    /\ usageHistory[Len(usageHistory)].Tokens = 3
    /\ heap[providers[ret.provider]].Quota.UsedRequests = 2
    /\ heap[providers[ret.provider]].Quota.UsedTokens = 5
    /\ heap[providers[ret.provider]].LastUsed = now - 1

\* C14: RecordUsage folds the latency sample into the provider's average on
\* success only (the sample itself when the average is 0, else the mean of
\* the two); a failed call leaves the average as it was.
C14_FailureKeepsLatency ==
    [][RecordsRegistered =>
          LET a == providers[ret'.provider]
              old == heap[a].Latency
          IN  heap'[a].Latency =
                 IF ret'.success
                 THEN (IF old = 0 THEN Recorded.Latency
                       ELSE (old + Recorded.Latency) \div 2)
                 ELSE old]_vars

\* C15: the history never holds more than 1000 records; the call that finds
\* 1000 records appends its own and drops the 100 oldest at once, leaving the
\* 900 most recent earlier records in their order followed by the new one;
\* every other call only appends.
C15_HistoryBounded ==
    [][ret'.op = "RecordUsage" =>
          /\ Len(usageHistory') <= 1000
          /\ Recorded.Time = now /\ Recorded.Provider = ret'.provider
          /\ IF Len(usageHistory) = 1000
             THEN /\ Len(usageHistory') = 901
                  /\ \A i \in 1..900 : usageHistory'[i] = usageHistory[i + 100]
             ELSE /\ Len(usageHistory') = Len(usageHistory) + 1
                  /\ \A i \in 1..Len(usageHistory) : usageHistory'[i] = usageHistory[i]]_vars

\* C15 witness: the 1001st call has just been recorded; the history holds 901
\* records, from the 101st call to the 1001st.
C15_Witness ==
    /\ ret.op = "RecordUsage"
    /\ Len(usageHistory) = 901
    /\ usageHistory[1].Time = 101
    /\ usageHistory[901].Time = 1001
    /\ now = 1002

\* C16: after every AutoDiscover, a model is in the rare map exactly when its
\* index list has one entry, and an entry is flagged exclusive exactly when it
\* is the only entry of its list.
C16_RareIffSingleEntry ==
    ret.op = "AutoDiscover" =>
        \A m \in ModelIDs :
            /\ rareModels[m] # NoProvider <=> Len(models[m]) = 1
            /\ \A i \in 1..Len(models[m]) :
                  models[m][i].IsExclusive <=> Len(models[m]) = 1

\* The models a provider record offers, and the registered providers offering m.
Offered(p) == {p.Models[i].ID : i \in 1..Len(p.Models)}
Contributors(m) == {n \in DOMAIN providers : m \in Offered(heap[providers[n]])}

\* C17: after every AutoDiscover the index list of a model has exactly one
\* entry for each registered provider that offers the model and no other
\* entry, and every entry points at the record the registry holds.
C17_IndexMatchesRegistry ==
    ret.op = "AutoDiscover" =>
        \A m \in ModelIDs :
            /\ \A i \in 1..Len(models[m]) :
                  LET a == models[m][i].Provider IN
                  /\ heap[a].Name \in Contributors(m)
                  /\ providers[heap[a].Name] = a
            /\ \A n \in Contributors(m) :
                  Cardinality({i \in 1..Len(models[m]) :
                                  models[m][i].Provider = providers[n]}) = 1

RECURSIVE SumOver(_, _)
SumOver(S, f) ==
    IF S = {} THEN 0
    ELSE LET x == CHOOSE y \in S : TRUE IN f[x] + SumOver(S \ {x}, f)

\* C20: after every AutoDiscover a model has a quota pool exactly when two or
\* more registered providers offer it; the pool's totals are the sums of those
\* providers' daily request and token ceilings, and its provider list names
\* each of them once.
C20_PoolsMatchContributors ==
    ret.op = "AutoDiscover" =>
        \A m \in ModelIDs :
            LET pool == quotaPool[m]
                limits == [n \in Contributors(m) |-> heap[providers[n]].Quota]
            IN  /\ pool # NoPool <=> Cardinality(Contributors(m)) >= 2
                /\ pool # NoPool =>
                      /\ pool.TotalRequests =
                            SumOver(Contributors(m),
                                    [n \in Contributors(m) |-> limits[n].RequestsPerDay])
                      /\ pool.TotalTokens =
                            SumOver(Contributors(m),
                                    [n \in Contributors(m) |-> limits[n].TokensPerDay])
                      /\ Len(pool.Providers) = Cardinality(Contributors(m))
                      /\ {pool.Providers[i] : i \in 1..Len(pool.Providers)}
                            = Contributors(m)

\* Admission on the provider's own record alone: status, own request and token
\* ceilings, and the reserve kept when the provider holds a rare model.
OwnQuotaAdmits(p, tokenEstimate) ==
    /\ p.Status = StatusActive
    /\ p.Quota.UsedRequests < p.Quota.RequestsPerDay
    /\ TokensFit(p, tokenEstimate)
    /\ providerHasRareModels(p.Name) => ~InReserve(p)

\* The first entry of the ranked order admitted on its own quota, or Nil.
OwnQuotaChoice(modelID, tokenEstimate) ==
    LET ranked == rankProviders(models[modelID], tokenEstimate).ranked
        admitted == {i \in 1..Len(ranked) :
                        OwnQuotaAdmits(heap[ranked[i].Provider], tokenEstimate)}
    IN  IF admitted = {} THEN Nil
        ELSE ranked[CHOOSE i \in admitted : \A j \in admitted : i <= j].Provider

\* C19: what Route returns is fixed by the index, the rare map, the
\* configuration and the candidates' own records (the first ranked candidate
\* admitted on its own quota), so it is the same whatever the quota pools
\* hold; and neither Route nor RecordUsage changes a quota pool.
C19_PoolsDoNotGateRouting ==
    [][/\ ret'.op \in {"Route", "RecordUsage"} => quotaPool' = quotaPool
       /\ ret'.op = "Route" =>
             ret'.provider = OwnQuotaChoice(ret'.modelID, ret'.tokenEstimate)]_vars

\* C19 witness: the requested model has a quota pool whose total is not used
\* up, one of its candidates has used up its own request ceiling, and Route
\* did not return that candidate.
C19_Witness ==
    /\ ret.op = "Route"
    /\ quotaPool[ret.modelID] # NoPool
    /\ \E i \in 1..Len(Candidates) :
          LET p == heap[Candidates[i].Provider] IN
          /\ p.Status = StatusActive
          /\ p.Quota.UsedRequests >= p.Quota.RequestsPerDay
          /\ p.Quota.UsedRequests < quotaPool[ret.modelID].AvailableRequests
          /\ TokensFit(p, ret.tokenEstimate)
          /\ ret.provider # Candidates[i].Provider

\* A goroutine is between Lock and Unlock, or between RLock and RUnlock.
InWrite(g) == calls[g].op \in {"AutoDiscover", "RecordUsage"} /\ calls[g].pc # "Lock"
InRead(g) == calls[g].op \in {"Route", "GetStats"} /\ calls[g].pc # "RLock"

\* A goroutine between Lock and Unlock has the router to itself.
WritersExclusive ==
    \A g, h \in Goroutines :
        (g # h /\ InWrite(g)) => ~InWrite(h) /\ ~InRead(h)

\* The usage counters of a provider record change only by the stores of one
\* RecordUsage call, and then by exactly 1 request and the call's tokens over
\* the values they had.
CountersAdvanceByOneCall ==
    \A a \in DOMAIN heap :
        heap'[a].Quota # heap[a].Quota =>
            \E g \in Goroutines :
                /\ calls[g].pc = "quota" /\ calls'[g].pc = "errors"
                /\ calls[g].local.addr = a
                /\ heap'[a].Quota.UsedRequests = heap[a].Quota.UsedRequests + 1
                /\ heap'[a].Quota.UsedTokens =
                      heap[a].Quota.UsedTokens + calls[g].arg.tokens

\* C18: AutoDiscover and RecordUsage run one at a time and never while a
\* Route or GetStats is between its RLock and RUnlock, so a reader sees each
\* RecordUsage wholly applied or not at all; and every RecordUsage adds
\* exactly 1 request and its own tokens to the counters as they stand, so n
\* concurrent calls on a provider add n requests and the sum of their tokens.
C18_CallsLinearizable ==
    []WritersExclusive /\ [][CountersAdvanceByOneCall]_vars

\* C18 witness: two goroutines are in RecordUsage on the same provider at once;
\* one has stored its counters and holds the lock, the other waits at Lock.
C18_Witness ==
    \E g, h \in Goroutines :
        /\ calls[g].op = "RecordUsage" /\ calls[g].pc = "errors"
        /\ calls[h].op = "RecordUsage" /\ calls[h].pc = "Lock"
        /\ calls[h].arg.provider = calls[g].arg.provider
        /\ heap[calls[g].local.addr].Quota.UsedRequests = 1

\* C21: GetStats changes no router state; a GetStats that directly follows a
\* GetStats returns what that one returned; and the statistics it returns give,
\* for every registered provider, the provider's current used requests, daily
\* request ceiling, error count and status.
C21_GetStatsReadOnly ==
    [][ret'.op = "GetStats" =>
          /\ UNCHANGED <<providers, heap, models, rareModels, quotaPool, usageHistory,
                         config, now, passes>>
          /\ ret.op = "GetStats" => ret' = ret
          /\ DOMAIN ret'.stats.ProviderStats = DOMAIN providers
          /\ \A n \in DOMAIN providers :
                LET p == heap[providers[n]]
                    st == ret'.stats.ProviderStats[n]
                IN  /\ st.QuotaUsed = p.Quota.UsedRequests
                    /\ st.QuotaTotal = p.Quota.RequestsPerDay
                    /\ st.ErrorCount = p.ErrorCount
                    /\ st.Status = p.Status]_vars

\* C21 witness: GetStats reported a provider that has one failed call on record.
C21_Witness ==
    /\ ret.op = "GetStats"
    /\ \E n \in DOMAIN ret.stats.ProviderStats :
          /\ ret.stats.ProviderStats[n].QuotaUsed = 1
          /\ ret.stats.ProviderStats[n].ErrorCount = 1
          /\ ret.stats.ProviderStats[n].QuotaTotal > 1

\* C22: no Route call is decided with a reserve fraction outside [0, 1]:
\* NewSmartRouter rejects such a configuration, so no router holds it when
\* Route admits a provider that has a rare model.
C22_InvalidConfigRejected ==
    (/\ ret.op = "Route"
     /\ ret.provider # Nil
     /\ providerHasRareModels(heap[ret.provider].Name)) =>
        /\ config.QuotaReservePercent.Num >= 0
        /\ config.QuotaReservePercent.Num <= config.QuotaReservePercent.Den

\* What Route returns for the index entries avail when they point at the
\* Provider records hp.
routeOn(hp, avail, tokenEstimate) ==
    firstAvailableOn(hp, insertionSortOn(hp, avail, 2), tokenEstimate, 1)

\* The records hp with the latencies of some of them replaced, and the entries
\* avail with their costs replaced.
WithLatency(hp, lat) ==
    [a \in DOMAIN hp |-> IF a \in DOMAIN lat THEN [hp[a] EXCEPT !.Latency = lat[a]]
                         ELSE hp[a]]
WithCosts(avail, cost) ==
    [i \in 1..Len(avail) |-> [avail[i] EXCEPT !.Model.InputCost = cost[i][1],
                                              !.Model.OutputCost = cost[i][2]]]

\* C23: with PreferFast off, Route returns the same provider whatever the
\* latencies of the candidates' records are; with PreferCheap off, it returns
\* the same provider whatever the input and output costs of the entries are.
C23_DisabledRulesDoNotInfluence ==
    (ret.op = "Route" /\ Len(Candidates) > 0) =>
        /\ routeOn(heap, Candidates, ret.tokenEstimate) = ret.provider
        /\ ~config.PreferFast =>
              \A lat \in [{Candidates[i].Provider : i \in 1..Len(Candidates)} -> {1, 7}] :
                  routeOn(WithLatency(heap, lat), Candidates, ret.tokenEstimate)
                      = ret.provider
        /\ ~config.PreferCheap =>
              \A cost \in [1..Len(Candidates) -> {<<0, 0>>, <<3, 1>>}] :
                  routeOn(heap, WithCosts(Candidates, cost), ret.tokenEstimate)
                      = ret.provider

\* Two entries that rules 1 to 3 leave tied: none is exclusive, their providers
\* both hold rare models or both hold none, and their remaining-quota ratios
\* are equal.
TiedOnQuota(a, b) ==
    /\ ~a.IsExclusive /\ ~b.IsExclusive
    /\ Burdened(a) <=> Burdened(b)
    /\ RatioEq(quotaRemaining(heap[a.Provider]), quotaRemaining(heap[b.Provider]))

\* C23 witness: both preferences are off, two admissible candidates are tied
\* on quota, and Route returned the one with the higher latency and the
\* higher cost.
C23_Witness ==
    /\ ret.op = "Route"
    /\ ~config.PreferFast /\ ~config.PreferCheap
    /\ \E i, j \in 1..Len(Candidates) :
          LET a == Candidates[i]
              b == Candidates[j]
          IN  /\ TiedOnQuota(a, b)
              /\ isProviderAvailable(heap[a.Provider], ret.tokenEstimate)
              /\ isProviderAvailable(heap[b.Provider], ret.tokenEstimate)
              /\ heap[a.Provider].Latency > heap[b.Provider].Latency
              /\ a.Model.InputCost + a.Model.OutputCost
                    > b.Model.InputCost + b.Model.OutputCost
              /\ ret.provider = a.Provider

CostOf(e) == e.Model.InputCost + e.Model.OutputCost

\* The order the lower rules give two entries: latency when PreferFast is on
\* and the latencies differ, else cost when PreferCheap is on and the costs
\* differ, else the time of last use.
LowerRulesPrefer(a, b) ==
    LET aP == heap[a.Provider]
        bP == heap[b.Provider]
    IN  IF config.PreferFast /\ aP.Latency # bP.Latency THEN aP.Latency < bP.Latency
        ELSE IF config.PreferCheap /\ CostOf(a) # CostOf(b) THEN CostOf(a) < CostOf(b)
        ELSE aP.LastUsed < bP.LastUsed

\* C24: for two entries of a model tied on exclusivity, rare-model burden and
\* remaining-quota ratio, the comparator puts first the one with the lower
\* latency when PreferFast is on; on a latency tie or with PreferFast off, the
\* one with the lower cost when PreferCheap is on; and otherwise the least
\* recently used. When Route ranks two such candidates and both are
\* admissible, it returns the one these rules prefer.
C24_LowerRulesInPrecedence ==
    /\ \A m \in DOMAIN models : \A i, j \in 1..Len(models[m]) :
          (i # j /\ TiedOnQuota(models[m][i], models[m][j])) =>
              (less(models[m][i], models[m][j])
                  <=> LowerRulesPrefer(models[m][i], models[m][j]))
    /\ (/\ ret.op = "Route"
        /\ Len(Candidates) = 2
        /\ TiedOnQuota(Candidates[1], Candidates[2])
        /\ \A i \in 1..2 : isProviderAvailable(heap[Candidates[i].Provider], ret.tokenEstimate))
       => ret.provider = IF LowerRulesPrefer(Candidates[2], Candidates[1])
                         THEN Candidates[2].Provider
                         ELSE Candidates[1].Provider

\* C24 witness: both preferences are on, two admissible candidates are tied on
\* quota after use, the first listed is faster and the second is cheaper, and
\* Route returned the faster one.
C24_Witness ==
    /\ ret.op = "Route"
    /\ config.PreferFast /\ config.PreferCheap
    /\ Len(Candidates) = 2
    /\ TiedOnQuota(Candidates[1], Candidates[2])
    /\ \A i \in 1..2 : isProviderAvailable(heap[Candidates[i].Provider], ret.tokenEstimate)
    /\ heap[Candidates[1].Provider].Quota.UsedRequests > 0
    /\ heap[Candidates[1].Provider].Latency < heap[Candidates[2].Provider].Latency
    /\ CostOf(Candidates[1]) > CostOf(Candidates[2])
    /\ ret.provider = Candidates[1].Provider

\* C25: RecordUsage never turns a record's status to active, and a registered
\* provider that is in error is still registered and in error after every
\* Route, RecordUsage and GetStats.
C25_NoRecovery ==
    [][/\ ret'.op = "RecordUsage" =>
            \A a \in DOMAIN heap :
                heap'[a].Status = StatusActive => heap[a].Status = StatusActive
       /\ ret'.op \in {"Route", "RecordUsage", "GetStats"} =>
            \A n \in DOMAIN providers :
                heap[providers[n]].Status = StatusError =>
                    /\ n \in DOMAIN providers'
                    /\ heap'[providers'[n]].Status = StatusError]_vars

\* C25 witness: a successful call was recorded on a provider that is in
\* error, and it is still in error.
C25_Witness ==
    /\ ret.op = "RecordUsage" /\ ret.success
    /\ ret.provider \in DOMAIN providers
    /\ heap[providers[ret.provider]].Status = StatusError
    /\ usageHistory[Len(usageHistory)].Success
    /\ FailuresOf(ret.provider) >= 4

\* No record's error count decreases in a step, and a successful call leaves
\* it as it is.
ErrorCountKept ==
    /\ \A a \in DOMAIN heap : heap'[a].ErrorCount >= heap[a].ErrorCount
    /\ (ret'.op = "RecordUsage" /\ ret'.success) =>
          \A a \in DOMAIN heap : heap'[a].ErrorCount = heap[a].ErrorCount

\* C26: the error count of a registered provider is the number of failed
\* calls recorded on it since it was registered, whatever successes lie in
\* between; it never decreases; and from the fourth failure on the provider
\* is in error.
C26_FailuresCumulative ==
    /\ [](\A n \in DOMAIN providers :
            /\ heap[providers[n]].ErrorCount = FailuresOf(n)
            /\ FailuresOf(n) >= 4 => heap[providers[n]].Status = StatusError)
    /\ [][ErrorCountKept]_vars

\* C26 witness: the fourth failure of a provider came after a success that
\* followed its first failures, and the provider is in error.
C26_Witness ==
    /\ ret.op = "RecordUsage" /\ ~ret.success
    /\ ret.provider \in DOMAIN providers
    /\ FailuresOf(ret.provider) = 4
    /\ heap[providers[ret.provider]].ErrorCount = 4
    /\ heap[providers[ret.provider]].Status = StatusError
    /\ \E i, j \in 1..Len(usageHistory) :
          /\ i < j /\ j < Len(usageHistory)
          /\ ~usageHistory[i].Success /\ usageHistory[j].Success
          /\ usageHistory[i].Provider = ret.provider
          /\ usageHistory[j].Provider = ret.provider

C28_UsedWithinCeiling ==
    \A a \in DOMAIN heap : heap[a].Quota.UsedRequests <= heap[a].Quota.RequestsPerDay

\* Granting one more request keeps the used requests of p within
\* RequestsPerDay x (1 - QuotaReservePercent), compared exactly:
\* (used + 1) x Den <= RequestsPerDay x (Den - Num).
WithinUnreservedShare(p) ==
    (p.Quota.UsedRequests + 1) * config.QuotaReservePercent.Den
        <= p.Quota.RequestsPerDay
             * (config.QuotaReservePercent.Den - config.QuotaReservePercent.Num)

\* C29: an active record whose provider holds a rare model and whose token
\* ceiling admits the estimate is rejected exactly when one more request
\* would pass RequestsPerDay x (1 - QuotaReservePercent), also when
\* RequestsPerDay x QuotaReservePercent is not an integer.
C29_ReserveExact ==
    \A a \in DOMAIN heap : \A tokenEstimate \in TokenEstimates :
        (/\ providerHasRareModels(heap[a].Name)
         /\ heap[a].Status = StatusActive
         /\ TokensFit(heap[a], tokenEstimate))
        => (~isProviderAvailable(heap[a], tokenEstimate)
               <=> ~WithinUnreservedShare(heap[a]))

\* C30: a RecordUsage call leaves the registry, the index, the rare map, the
\* quota pools and the configuration as they are and creates no record; every
\* record but the named provider's is unchanged, and of that one the name, the
\* models and the two ceilings are unchanged; for a name that is not
\* registered no record changes; and in both cases one record carrying the
\* name is appended to the history.
C30_RecordUsageFrame ==
    [][ret'.op = "RecordUsage" =>
          /\ UNCHANGED <<providers, models, rareModels, quotaPool, config, passes>>
          /\ DOMAIN heap' = DOMAIN heap
          /\ \A a \in DOMAIN heap :
                (ret'.provider \notin DOMAIN providers \/ a # providers[ret'.provider])
                    => heap'[a] = heap[a]
          /\ ret'.provider \in DOMAIN providers =>
                LET p == heap[providers[ret'.provider]]
                    q == heap'[providers[ret'.provider]]
                IN  /\ q.Name = p.Name
                    /\ q.Models = p.Models
                    /\ q.Quota.RequestsPerDay = p.Quota.RequestsPerDay
                    /\ q.Quota.TokensPerDay = p.Quota.TokensPerDay
          /\ Len(usageHistory) < HistoryCap =>
                /\ Len(usageHistory') = Len(usageHistory) + 1
                /\ SubSeq(usageHistory', 1, Len(usageHistory)) = usageHistory
                /\ usageHistory'[Len(usageHistory')].Provider = ret'.provider]_vars

\* C30 witness: calls were recorded for a name that is not registered while
\* another provider is registered and untouched; the history holds them.
C30_Witness ==
    /\ ret.op = "RecordUsage"
    /\ ret.provider \notin DOMAIN providers
    /\ DOMAIN providers # {}
    /\ \A n \in DOMAIN providers : heap[providers[n]].Quota.UsedRequests = 0
    /\ Len(usageHistory) = 2
    /\ usageHistory[2].Provider = ret.provider

\* Two candidates are balanced: same request ceiling, no rare model held,
\* both admissible for the estimate.
BalancedPair(a, b, tokenEstimate) ==
    /\ heap[a].Quota.RequestsPerDay = heap[b].Quota.RequestsPerDay
    /\ ~providerHasRareModels(heap[a].Name) /\ ~providerHasRareModels(heap[b].Name)
    /\ isProviderAvailable(heap[a], tokenEstimate)
    /\ isProviderAvailable(heap[b], tokenEstimate)

\* C31: with PreferFast and PreferCheap off and two candidates of equal
\* ceiling, without rare models and both admissible, the provider a Route
\* returns in a cycle is not the one the previous cycle recorded usage for.
C31_NoProviderTwiceInARow ==
    (/\ ret.op = "Route" /\ ret.provider # Nil
     /\ ~config.PreferFast /\ ~config.PreferCheap
     /\ Len(usageHistory) > 0
     /\ Len(Candidates) = 2
     /\ BalancedPair(Candidates[1].Provider, Candidates[2].Provider, ret.tokenEstimate))
    => heap[ret.provider].Name # usageHistory[Len(usageHistory)].Provider

\* C31 witness: after the cycles went to p1, p2 and p1 again, Route returns
\* p2 while both are admissible.
C31_Witness ==
    /\ ret.op = "Route" /\ ret.provider # Nil
    /\ ~config.PreferFast /\ ~config.PreferCheap
    /\ Len(usageHistory) = 3
    /\ usageHistory[1].Provider = "p1"
    /\ usageHistory[2].Provider = "p2"
    /\ usageHistory[3].Provider = "p1"
    /\ Len(Candidates) = 2
    /\ BalancedPair(Candidates[1].Provider, Candidates[2].Provider, ret.tokenEstimate)
    /\ heap[ret.provider].Name = "p2"

Range(list) == {list[i] : i \in 1..Len(list)}

\* The positions of a preference order whose provider offers the model.
Offering(preferOrder, list) ==
    {k \in 1..Len(preferOrder) : preferOrder[k] \in Range(list)}

\* C32: GetBestProvider returns "" for a model that is not in the catalog and
\* otherwise a provider of the model's list: the only one of a single-provider
\* model whatever the strategy; for free, fast and cheap the provider that
\* comes first in the strategy's preference order among those that offer the
\* model; and the first listed provider when the strategy is unknown or no
\* preferred provider offers the model.
C32_BestProviderChoice ==
    ret.op = "GetBestProvider" =>
        IF ret.modelID \notin DOMAIN ModelRegistry THEN ret.provider = ""
        ELSE LET list == ModelRegistry[ret.modelID]
             IN  /\ ret.provider \in Range(list)
                 /\ Len(list) = 1 => ret.provider = list[1]
                 /\ (Len(list) > 1 /\ ret.strategy \in {"free", "fast", "cheap"}) =>
                       LET order == PreferOrder[ret.strategy]
                           ks == Offering(order, list)
                       IN  IF ks = {} THEN ret.provider = list[1]
                           ELSE \E k \in ks :
                                  /\ \A l \in ks : k <= l
                                  /\ ret.provider = order[k]
                 /\ ret.strategy \notin {"free", "fast", "cheap"} => ret.provider = list[1]

\* C32 witness: for a model listed as mistral, together, groq, openrouter the
\* strategy fast returns groq, which is neither the first listed provider
\* nor the first listed one that the strategy prefers.
C32_Witness ==
    /\ ret.op = "GetBestProvider"
    /\ ret.modelID = "mixtral-8x22b"
    /\ ret.strategy = "fast"
    /\ ret.provider = "groq"
    /\ ret.provider # ModelRegistry[ret.modelID][1]

\* C33: Work makes at most maxRetries provider calls, errors included, and
\* the iteration count never exceeds maxRetries; Work returns nil with status
\* complete after a response with a completion marker, the context error with
\* status paused after a cancellation, and the max-retries error with status
\* failed otherwise.
C33_WorkBoundedAndClassified ==
    /\ sisyphus.iterations <= sisyphus.maxRetries
    /\ \A g \in SisyphusGoroutines : sisyphusCalls[g].generated <= sisyphus.maxRetries
    /\ ret.op = "Work" =>
          /\ ret.generated <= sisyphus.maxRetries
          /\ ret.err = "" => ret.status = StatusComplete
          /\ ret.err = ErrCanceled => ret.status = StatusPaused
          /\ ret.err = ErrMaxRetries => ret.status = StatusFailed

\* C34: while the status is paused no Work loop enters a further iteration
\* (none passes the select to count the iteration and call the provider); and a
\* Resume that finds a status other than paused returns the not-paused error
\* and leaves the status as it is.
C34_PauseStopsTheLoop ==
    [][/\ sisyphus.status = StatusPaused =>
            /\ sisyphus'.iterations <= sisyphus.iterations
            /\ \A g \in SisyphusGoroutines :
                  ~(sisyphusCalls[g].pc = "select" /\ sisyphusCalls'[g].pc = "store")
       /\ (ret'.op = "Resume" /\ ret' # ret) =>
            /\ ret'.err = ErrNotPaused
            /\ sisyphus.status # StatusPaused
            /\ sisyphus'.status = sisyphus.status]_vars

\* C35: no goroutine panics with a send on, or a close of, a closed work
\* queue; Submit returns the not-running error exactly when it read a status
\* other than running, and the queue-full error only from a full queue.
C35_NoSendOnClosedQueue ==
    /\ hephaestusCalls.panic = ""
    /\ ret.op = "Submit" =>
          /\ ret.err = ErrNotRunning <=> ret.status # StatusRunning
          /\ ret.err = ErrQueueFull => hephaestus.workQueue.len = QueueCap

\* C36: once the context of Start is cancelled, Start eventually returns
\* (unless the program has panicked), also when the results channel is full
\* and nobody reads from it.
C36_StartReturnsAfterCancel ==
    (hephaestusCalls.start[1].ctxDone /\ Alive)
        ~> (hephaestusCalls.start[1].pc = "returned" \/ ~Alive)

\* C37: every indexed tool names a registered server, every tool of a
\* registered server is in the index, and CallTool does not report a missing
\* server for a tool that is in the index.
C37_ToolIndexConsistent ==
    /\ \A t \in DOMAIN manager.tools :
          manager.tools[t].ServerName \in DOMAIN manager.servers
    /\ \A n \in DOMAIN manager.servers :
          \A i \in 1..Len(manager.servers[n].Tools) :
              manager.servers[n].Tools[i] \in DOMAIN manager.tools
    /\ (ret.op = "CallTool" /\ ret.name \in DOMAIN manager.tools) =>
          ret.err # ErrServerNotFound

====
